---------------------------- MODULE Spec2Model ----------------------------
(***************************************************************************)
(* A model of the Sora archive kit: the userscript that downloads a        *)
(* generation's media file and its metadata sidecar, the index             *)
(* normalisation and archive scan of the gallery and harvest pages, and    *)
(* the single-slot store of the archive directory handle.                  *)
(*                                                                         *)
(* JavaScript strings are sequences of one-character strings, so that the  *)
(* regular expressions of the source are computed character by character.  *)
(* Every JavaScript value is a record tagged by its type in field t.       *)
(***************************************************************************)
EXTENDS Integers, Sequences, FiniteSets, TLC

VARIABLES
    value,            \* extractGenId: the argument of the call
    genId,            \* extractGenId: what the call returned
    raw,              \* normalizeIndexData: the parsed index file
    normalized,       \* normalizeIndexData: its result, or the error it threw
    slot,             \* IndexedDB store 'handles': the value under key 'archive'
    lastSaved,        \* history: the handle of the last completed save that no
                      \* completed clear followed, Undefined when there is none
    call,             \* the last call of the handle store API and how it ended
    pagePath,         \* userscript: window.location.pathname
    pageMedia,        \* userscript: what waitForMedia finds on the page
    pagePrompt,       \* userscript: what extractPromptText reads from the page
    downloads,        \* userscript: the downloads triggered, in order
    bannerStatus,     \* userscript: the banner's status text
    flowResult,       \* userscript: how the last runDownloadFlow ended
    disk,             \* the archive folder on disk: its entries
    page,             \* which page is open: "gallery" or "harvest"
    normalizedIndex,  \* page: let normalizedIndex
    archiveData,      \* page: let archiveData
    indexStatus,      \* page: #index-status
    archiveStatus,    \* page: #archive-status
    listing,          \* page: .harvest-list / .gallery-grid
    summary,          \* page: #pending-count / .stats
    progress,         \* harvest page: #progress-text and #progress-fill
    opened,           \* harvest page: the window.open calls of the last openMissing
    alerted,          \* harvest page: the last alert
    archiveNoticeHidden,  \* gallery page: #archive-notice.hidden
    objectUrlCache,   \* gallery page: the keys of objectUrlCache
    pendingPreviews,  \* gallery page: the applyOfflinePreview calls not yet completed
    input,            \* a call of resolvePrompt, scanArchiveDirectory or
                      \* sanitizeForFilename on its own: the arguments
    output,           \* what that call returned
    revision,         \* waitForMedia: which revision of the userscript runs
    attempt,          \* waitForMedia: let attempt
    fallbackImage,    \* waitForMedia: let fallbackImage (later revision)
    document,         \* waitForMedia: the media elements now in the document
    pollState,        \* waitForMedia: idle, polling, sleeping, found, timed-out
    waited,           \* waitForMedia: what it returned, or the error it threw
    scans,            \* history: how many times the document was scanned
    emptyScans,       \* history: how many scans met no acceptable candidate
    autoMode,         \* userscript: state.autoMode
    buttonDisabled,   \* userscript: the banner button's disabled property
    timers,           \* userscript: the setTimeout callbacks not yet run
    runs,             \* userscript: the calls of handleDownloadRequest so far,
                      \* each with where it stands, its fetches and downloads
    closed,           \* userscript: window.close() was called
    flows             \* gallery and harvest pages: the asynchronous calls started
                      \* so far (init, a folder pick, an index load, an "open
                      \* missing"), each with the await it stands at

idVars == <<value, genId>>
pureVars == <<input, output>>
mediaVars == <<revision, attempt, fallbackImage, document, pollState, waited, scans,
               emptyScans>>
runVars == <<autoMode, buttonDisabled, timers, runs, closed>>
flowVars == <<flows>>
indexVars == <<raw, normalized>>
storeVars == <<slot, lastSaved, call>>
scriptVars == <<pagePath, pageMedia, pagePrompt, downloads, bannerStatus, flowResult>>
pageVars == <<page, normalizedIndex, archiveData, indexStatus, archiveStatus, listing,
              summary, progress, opened, alerted, archiveNoticeHidden, objectUrlCache,
              pendingPreviews>>
\* the functions and handlers that a specification runs on their own
callVars == <<idVars, pureVars, mediaVars, runVars, flowVars>>
vars == <<callVars, indexVars, storeVars, scriptVars, disk, pageVars>>
\* what each specification leaves alone
notIdVars == <<pureVars, mediaVars, runVars, flowVars, indexVars, storeVars, scriptVars, disk, pageVars>>
notIndexVars == <<callVars, storeVars, scriptVars, disk, pageVars>>
notStoreVars == <<callVars, indexVars, scriptVars, disk, pageVars>>
notPureVars == <<idVars, mediaVars, runVars, flowVars, indexVars, storeVars, scriptVars, disk, pageVars>>
notMediaVars == <<idVars, pureVars, runVars, flowVars, indexVars, storeVars, scriptVars, disk, pageVars>>

(***************************************************************************)
(* JavaScript values.                                                      *)
(***************************************************************************)
Null == [t |-> "null"]
Undefined == [t |-> "undefined"]
Unset == [t |-> "unset"]            \* no call has returned yet
JStr(s) == [t |-> "string", s |-> s]
JNum(n) == [t |-> "number", n |-> n]
JObj(fields) == [t |-> "object", fields |-> fields]
JArr(items) == [t |-> "array", items |-> items]
JBool(b) == [t |-> "boolean", b |-> b]
Field(k, v) == [k |-> k, v |-> v]

\* All sequences over S of length at most n.
SeqsUpTo(S, n) == UNION {[1..k -> S] : k \in 0..n}

RECURSIVE Concat(_)
Concat(ss) == IF ss = <<>> THEN <<>> ELSE Head(ss) \o Concat(Tail(ss))

(***************************************************************************)
(* Characters.                                                             *)
(***************************************************************************)
UpperSeq == <<"A","B","C","D","E","F","G","H","I","J","K","L","M",
              "N","O","P","Q","R","S","T","U","V","W","X","Y","Z">>
LowerSeq == <<"a","b","c","d","e","f","g","h","i","j","k","l","m",
              "n","o","p","q","r","s","t","u","v","w","x","y","z">>
Digits == {"0","1","2","3","4","5","6","7","8","9"}

UpperSet == {UpperSeq[i] : i \in DOMAIN UpperSeq}
LowerSet == {LowerSeq[i] : i \in DOMAIN LowerSeq}
LowerOf == [c \in UpperSet |-> LowerSeq[CHOOSE i \in DOMAIN UpperSeq : UpperSeq[i] = c]]

IsUpper(c) == c \in UpperSet
IsLower(c) == c \in LowerSet
IsAsciiAlnum(c) == c \in Digits \/ IsUpper(c) \/ IsLower(c)
toLowerCase(c) == IF IsUpper(c) THEN LowerOf[c] ELSE c

(***************************************************************************)
(* data.js: GEN_ID_REGEX = /gen_[a-z0-9]+/i and extractGenId.              *)
(* The regular expression is run as the engine runs it: the start          *)
(* positions are tried from the left, and at the first position where the  *)
(* literal and one character of the class match, the class is extended     *)
(* greedily.  The i flag folds the case of the literal and of the class.   *)
(***************************************************************************)
GenLiteral == <<"g","e","n","_">>

LiteralAt(s, i) ==
    /\ i + Len(GenLiteral) - 1 <= Len(s)
    /\ \A k \in DOMAIN GenLiteral : toLowerCase(s[i + k - 1]) = GenLiteral[k]

ClassAt(s, j) == j <= Len(s) /\ IsAsciiAlnum(s[j])

RECURSIVE GreedyEnd(_, _)
GreedyEnd(s, j) == IF ClassAt(s, j + 1) THEN GreedyEnd(s, j + 1) ELSE j

RECURSIVE RegexExecFrom(_, _)
RegexExecFrom(s, i) ==
    IF i > Len(s) THEN <<>>
    ELSE IF LiteralAt(s, i) /\ ClassAt(s, i + Len(GenLiteral))
         THEN SubSeq(s, i, GreedyEnd(s, i + Len(GenLiteral)))
         ELSE RegexExecFrom(s, i + 1)

\* value.match(GEN_ID_REGEX): the matched text, <<>> when there is no match.
GEN_ID_REGEX(s) == RegexExecFrom(s, 1)

\* A plausible slip: the i flag forgotten on the literal.
LiteralAtCaseSensitive(s, i) ==
    /\ i + Len(GenLiteral) - 1 <= Len(s)
    /\ \A k \in DOMAIN GenLiteral : s[i + k - 1] = GenLiteral[k]

RECURSIVE RegexExecFromCaseSensitive(_, _)
RegexExecFromCaseSensitive(s, i) ==
    IF i > Len(s) THEN <<>>
    ELSE IF LiteralAtCaseSensitive(s, i) /\ ClassAt(s, i + Len(GenLiteral))
         THEN SubSeq(s, i, GreedyEnd(s, i + Len(GenLiteral)))
         ELSE RegexExecFromCaseSensitive(s, i + 1)

extractGenIdCaseSensitive(v) ==
    IF v.t # "string" \/ v.s = <<>> THEN Null
    ELSE LET m == RegexExecFromCaseSensitive(v.s, 1)
         IN  IF m = <<>> THEN Null ELSE JStr(m)

extractGenId(v) ==
    IF v.t # "string" \/ v.s = <<>> THEN Null
    ELSE LET m == GEN_ID_REGEX(v.s)
         IN  IF m = <<>> THEN Null ELSE JStr(m)

(***************************************************************************)
(* String literals of the source, character by character.                  *)
(***************************************************************************)
K_id == <<"i","d">>
K_items == <<"i","t","e","m","s">>
K_name == <<"n","a","m","e">>
K_prompt == <<"p","r","o","m","p","t">>
\* data.js: THUMB_KEYS, URL_KEYS, PROMPT_KEYS, in the order of the source.
THUMB_KEYS ==
    << <<"t","h","u","m","b">>, <<"t","h","u","m","b","n","a","i","l">>,
       <<"i","m","a","g","e">>, <<"i","m","g">>, <<"s","r","c">>,
       <<"p","r","e","v","i","e","w">>, <<"p","o","s","t","e","r">> >>
URL_KEYS ==
    << <<"h","r","e","f">>, <<"u","r","l">>, <<"p","a","g","e","U","r","l">>,
       <<"l","i","n","k">> >>
PROMPT_KEYS ==
    << K_prompt, <<"c","a","p","t","i","o","n">>,
       <<"d","e","s","c","r","i","p","t","i","o","n">>, <<"t","e","x","t">> >>
PageUrlPrefix ==
    <<"h","t","t","p","s",":","/","/","s","o","r","a",".","c","h","a","t","g","p","t",
      ".","c","o","m","/","g","/">>
HttpLiteral == <<"h","t","t","p">>
UnsupportedFormatMessage ==
    "Unsupported index format. Expected an array or { items: [] } structure."

(***************************************************************************)
(* JavaScript built-ins used by data.js.                                   *)
(***************************************************************************)
IsString(v) == v.t = "string"
\* typeof v === 'string' && v
IsNonEmptyString(v) == v.t = "string" /\ v.s # <<>>
\* typeof v === 'object' (null apart): plain objects and arrays
IsObject(v) == v.t \in {"object", "array"}

\* obj[key]: the value of the property, undefined when the object has none.
Prop(obj, key) ==
    IF obj.t = "object" /\ \E i \in DOMAIN obj.fields : obj.fields[i].k = key
    THEN obj.fields[CHOOSE i \in DOMAIN obj.fields : obj.fields[i].k = key].v
    ELSE Undefined

startsWith(s, prefix) ==
    Len(prefix) <= Len(s) /\ SubSeq(s, 1, Len(prefix)) = prefix

IsSpace(c) == c \in {" ", "\t", "\n"}

RECURSIVE trimStart(_)
trimStart(s) == IF s # <<>> /\ IsSpace(Head(s)) THEN trimStart(Tail(s)) ELSE s

RECURSIVE trimEnd(_)
trimEnd(s) ==
    IF s # <<>> /\ IsSpace(s[Len(s)]) THEN trimEnd(SubSeq(s, 1, Len(s) - 1)) ELSE s

trim(s) == trimEnd(trimStart(s))

DigitSeq == <<"0","1","2","3","4","5","6","7","8","9">>

RECURSIVE NumberToString(_)
NumberToString(n) ==
    IF n < 10 THEN <<DigitSeq[n + 1]>>
    ELSE NumberToString(n \div 10) \o <<DigitSeq[(n % 10) + 1]>>

\* JSON.stringify of a string: quoted, with quote, backslash and newline escaped.
RECURSIVE QuoteChars(_)
QuoteChars(s) ==
    IF s = <<>> THEN <<>>
    ELSE (CASE Head(s) = "\"" -> <<"\\", "\"">>
            [] Head(s) = "\\" -> <<"\\", "\\">>
            [] Head(s) = "\n" -> <<"\\", "n">>
            [] Head(s) = "\t" -> <<"\\", "t">>
            [] OTHER -> <<Head(s)>>) \o QuoteChars(Tail(s))

QuoteString(s) == <<"\"">> \o QuoteChars(s) \o <<"\"">>

RECURSIVE JSON_stringify(_)
RECURSIVE StringifyFields(_, _)
RECURSIVE StringifyItems(_, _)
JSON_stringify(v) ==
    CASE v.t = "string" -> QuoteString(v.s)
      [] v.t = "number" -> NumberToString(v.n)
      [] v.t = "object" -> <<"{">> \o StringifyFields(v.fields, 1) \o <<"}">>
      [] v.t = "array" -> <<"[">> \o StringifyItems(v.items, 1) \o <<"]">>
      [] OTHER -> <<"n","u","l","l">>
StringifyFields(fields, i) ==
    IF i > Len(fields) THEN <<>>
    ELSE (IF i > 1 THEN <<",">> ELSE <<>>)
         \o QuoteString(fields[i].k) \o <<":">> \o JSON_stringify(fields[i].v)
         \o StringifyFields(fields, i + 1)
StringifyItems(items, i) ==
    IF i > Len(items) THEN <<>>
    ELSE (IF i > 1 THEN <<",">> ELSE <<>>)
         \o JSON_stringify(items[i]) \o StringifyItems(items, i + 1)

(***************************************************************************)
(* data.js: buildPageUrl, findThumb, findPageUrl, findPrompt.              *)
(***************************************************************************)
buildPageUrl(id) == JStr(PageUrlPrefix \o id.s)

\* for (const key of keys) if (typeof obj[key] === 'string' && obj[key]) return obj[key]
RECURSIVE FirstStringProp(_, _, _)
FirstStringProp(obj, keys, i) ==
    IF i > Len(keys) THEN Null
    ELSE IF IsNonEmptyString(Prop(obj, keys[i])) THEN Prop(obj, keys[i])
    ELSE FirstStringProp(obj, keys, i + 1)

findThumb(obj) == FirstStringProp(obj, THUMB_KEYS, 1)
findPageUrl(obj) == FirstStringProp(obj, URL_KEYS, 1)

RECURSIVE FirstTrimmedProp(_, _, _)
FirstTrimmedProp(obj, keys, i) ==
    IF i > Len(keys) THEN Null
    ELSE IF IsString(Prop(obj, keys[i])) /\ trim(Prop(obj, keys[i]).s) # <<>>
         THEN JStr(trim(Prop(obj, keys[i]).s))
    ELSE FirstTrimmedProp(obj, keys, i + 1)

findPrompt(obj) == FirstTrimmedProp(obj, PROMPT_KEYS, 1)

(***************************************************************************)
(* data.js: normalizeIndexEntry.  The record it returns, or Null.          *)
(***************************************************************************)
IndexRecord(id, pageUrl, thumbUrl, prompt, original) ==
    [t |-> "record", id |-> id, pageUrl |-> pageUrl, thumbUrl |-> thumbUrl,
     prompt |-> prompt, original |-> original]

\* A plausible slip: the serialized entry is not searched for an id.
EntryIdOwnOnly(entry) ==
    LET own == Prop(entry, K_id)
    IN  IF IsNonEmptyString(own)
        THEN (IF extractGenId(own) # Null THEN extractGenId(own) ELSE own)
        ELSE Null

\* lines 101-107: the id of an object entry, Null when it has none.
EntryId(entry) ==
    LET own == Prop(entry, K_id)
        fromOwn == IF IsNonEmptyString(own)
                   THEN (IF extractGenId(own) # Null THEN extractGenId(own) ELSE own)
                   ELSE Null
    IN  IF fromOwn # Null THEN fromOwn ELSE extractGenId(JStr(JSON_stringify(entry)))

\* lines 110-113: the page URL of an object entry with id `id`.
EntryPageUrl(entry, id) ==
    LET found == IF findPageUrl(entry) # Null THEN findPageUrl(entry)
                 ELSE buildPageUrl(id)
    IN  IF extractGenId(found) = Null THEN buildPageUrl(id) ELSE found

normalizeIndexEntry(entry) ==
    IF entry.t \in {"null", "undefined"} THEN Null
    ELSE IF entry.t = "string"
    THEN (IF extractGenId(entry) = Null THEN Null
          ELSE IndexRecord(extractGenId(entry), buildPageUrl(extractGenId(entry)),
                           IF startsWith(entry.s, HttpLiteral) THEN entry ELSE Null,
                           Undefined, entry))
    ELSE IF IsObject(entry)
    THEN LET id == EntryId(entry)
         IN  IF id = Null THEN Null
             ELSE IndexRecord(id, EntryPageUrl(entry, id), findThumb(entry),
                              IF findPrompt(entry) # Null THEN findPrompt(entry)
                              ELSE Undefined,
                              entry)
    ELSE Null

(***************************************************************************)
(* data.js: normalizeIndexData.  Its return value {items, skipped}, or the *)
(* error it throws.                                                        *)
(***************************************************************************)
IndexResult(items, skipped) == [t |-> "result", items |-> items, skipped |-> skipped]
Thrown(message) == [t |-> "error", message |-> message]

\* A plausible slip: unshift for push.
RECURSIVE NormalizeLoopReversed(_, _, _, _)
NormalizeLoopReversed(entries, i, items, skipped) ==
    IF i > Len(entries) THEN IndexResult(items, skipped)
    ELSE LET n == normalizeIndexEntry(entries[i])
         IN  IF n # Null
             THEN NormalizeLoopReversed(entries, i + 1, <<n>> \o items, skipped)
             ELSE NormalizeLoopReversed(entries, i + 1, items, skipped + 1)

\* the for loop of lines 140-147 and 150-157, from entry i on
RECURSIVE NormalizeLoop(_, _, _, _)
NormalizeLoop(entries, i, items, skipped) ==
    IF i > Len(entries) THEN IndexResult(items, skipped)
    ELSE LET n == normalizeIndexEntry(entries[i])
         IN  IF n # Null
             THEN NormalizeLoop(entries, i + 1, Append(items, n), skipped)
             ELSE NormalizeLoop(entries, i + 1, items, skipped + 1)

\* A plausible slip: a missing items field read as an empty list.
normalizeIndexDataLenient(r) ==
    IF r.t = "array" THEN NormalizeLoop(r.items, 1, <<>>, 0)
    ELSE IF r.t = "object"
    THEN (IF Prop(r, K_items).t = "array"
          THEN NormalizeLoop(Prop(r, K_items).items, 1, <<>>, 0)
          ELSE IndexResult(<<>>, 0))
    ELSE Thrown(UnsupportedFormatMessage)

normalizeIndexData(r) ==
    IF r.t = "array" THEN NormalizeLoop(r.items, 1, <<>>, 0)
    ELSE IF r.t = "object" /\ Prop(r, K_items).t = "array"
    THEN NormalizeLoop(Prop(r, K_items).items, 1, <<>>, 0)
    ELSE Thrown(UnsupportedFormatMessage)

(***************************************************************************)
(* Specification SpecGenId: extractGenId applied to one argument.          *)
(* The argument is a string put together from at most MaxFragments         *)
(* fragments, or a value that is not a string.                             *)
(***************************************************************************)
MaxFragments == 3

Fragments ==
    { <<"g","e","n","_">>, <<"g","e","n","_","a">>, <<"G","E","N","_","b","2">>,
      <<"G","e","n">>, <<"_">>, <<"x","9">>, <<"Z">>, <<"/">>, <<"-","-">>, <<".">> }

IdArguments ==
    {JStr(Concat(fs)) : fs \in SeqsUpTo(Fragments, MaxFragments)}
        \cup {Null, Undefined, JNum(7), JObj(<<>>)}

IdleId == value = Unset /\ genId = Unset
IdlePure == input = Unset /\ output = Unset
IdleMedia ==
    /\ revision = "later" /\ attempt = 0 /\ fallbackImage = Null /\ document = <<>>
    /\ pollState = "idle" /\ waited = Unset /\ scans = 0 /\ emptyScans = 0
IdleRuns ==
    /\ autoMode = FALSE /\ buttonDisabled = FALSE /\ timers = {} /\ runs = <<>>
    /\ closed = FALSE
IdleFlows == flows = <<>>
IdleCalls == IdleId /\ IdlePure /\ IdleMedia /\ IdleRuns /\ IdleFlows
IdleIndex == raw = Unset /\ normalized = Unset
IdleStore == slot = Undefined /\ lastSaved = Undefined /\ call = Unset
IdleScript ==
    /\ pagePath = Unset /\ pageMedia = Unset /\ pagePrompt = Unset
    /\ downloads = <<>> /\ bannerStatus = Unset /\ flowResult = Unset
IdlePage ==
    /\ page = Unset /\ normalizedIndex = <<>> /\ archiveData = Unset
    /\ indexStatus = Unset /\ archiveStatus = Unset /\ listing = Unset
    /\ summary = Unset /\ progress = Unset /\ opened = <<>> /\ alerted = Unset
    /\ archiveNoticeHidden = Unset /\ objectUrlCache = {} /\ pendingPreviews = {}
IdleRest == IdleScript /\ disk = <<>> /\ IdlePage

InitGenId ==
    /\ value \in IdArguments /\ genId = Unset
    /\ IdlePure /\ IdleMedia /\ IdleRuns /\ IdleFlows /\ IdleIndex /\ IdleStore
    /\ IdleRest

ExtractGenId ==
    /\ genId = Unset
    /\ genId' = extractGenId(value)
    /\ UNCHANGED <<value, notIdVars>>

NextGenId == ExtractGenId

SpecGenId == InitGenId /\ [][NextGenId]_vars

(***************************************************************************)
(* C9: extractGenId returns the leftmost substring that is "gen_" in any   *)
(* letter case followed by one or more ASCII letters or digits, extended   *)
(* as far as possible and copied with its case; it returns null when the   *)
(* string holds no such substring, is empty, or the value is no string.    *)
(***************************************************************************)
\* s[i..j] is "gen_" in any case followed by letters or digits only.
IsGenIdAt(s, i, j) ==
    /\ 1 <= i /\ i + 4 <= j /\ j <= Len(s)
    /\ toLowerCase(s[i]) = "g" /\ toLowerCase(s[i + 1]) = "e"
    /\ toLowerCase(s[i + 2]) = "n" /\ s[i + 3] = "_"
    /\ \A k \in (i + 4)..j : IsAsciiAlnum(s[k])

\* Some substring of s is a generation id: then one with a single character
\* after gen_ is.
HasGenId(s) == \E i \in 1..Len(s) : IsGenIdAt(s, i, i + 4)

C9_ExtractGenIdLeftmostLongest ==
    genId # Unset =>
        IF value.t = "string" /\ HasGenId(value.s)
        THEN /\ genId.t = "string"
             /\ \E i, j \in 1..Len(value.s) :
                   /\ IsGenIdAt(value.s, i, j)
                   /\ genId.s = SubSeq(value.s, i, j)
                   /\ \A i2 \in 1..(i - 1), j2 \in 1..Len(value.s) :
                          ~IsGenIdAt(value.s, i2, j2)
                   /\ (j = Len(value.s) \/ ~IsAsciiAlnum(value.s[j + 1]))
        ELSE genId = Null

\* A string with two ids, the first in upper case and more than one character
\* long: the call returned the first, whole and in its own case.
C9_Witness ==
    /\ genId = JStr(<<"G","E","N","_","b","2">>)
    /\ value.t = "string"
    /\ \E i \in 7..Len(value.s), j \in 7..Len(value.s) : IsGenIdAt(value.s, i, j)

(***************************************************************************)
(* Specification SpecIndex: normalizeIndexData applied to one parsed       *)
(* index file.  The file is a list of at most MaxEntries entries, at the   *)
(* top level or under items, or a value of another shape.                  *)
(***************************************************************************)
MaxEntries == 3

S_gen_ok == <<"g","e","n","_","o","k">>
S_gen_a == <<"g","e","n","_","a">>
S_gen_b == <<"g","e","n","_","b">>
S_GEN_c == <<"G","E","N","_","c","1">>
S_abc == <<"a","b","c">>
S_cat == <<" ","a"," ","c","a","t"," ">>
S_url_a == <<"h","t","t","p","s",":","/","/","x","/","g","e","n","_","a">>
S_url_b == <<"h","t","t","p","s",":","/","/","x","/","g","e","n","_","b">>
S_url_none == <<"h","t","t","p","s",":","/","/","x","/","y">>
S_thumb == <<"t",".","p","n","g">>

EntryPool ==
    { Null,
      JNum(7),
      JStr(S_gen_ok),
      JStr(S_url_a),
      JStr(S_abc),
      JObj(<<Field(K_id, JStr(S_gen_a)), Field(K_prompt, JStr(S_cat))>>),
      JObj(<<Field(K_id, JStr(S_abc))>>),
      JObj(<<Field(K_id, JStr(S_gen_a)), Field(URL_KEYS[1], JStr(S_url_b))>>),
      JObj(<<Field(K_id, JStr(S_GEN_c)), Field(URL_KEYS[2], JStr(S_url_none)),
             Field(THUMB_KEYS[3], JStr(S_thumb))>>),
      JObj(<<Field(K_name, JNum(5)), Field(URL_KEYS[4], JStr(S_url_b))>>),
      JObj(<<>>),
      JArr(<<JStr(S_gen_a)>>) }

IndexInputs ==
    {JArr(es) : es \in SeqsUpTo(EntryPool, MaxEntries)}
        \cup {JObj(<<Field(K_items, JArr(es))>>) : es \in SeqsUpTo(EntryPool, MaxEntries)}
        \cup { Null, JNum(3), JStr(S_gen_ok), JObj(<<>>),
               JObj(<<Field(K_items, JStr(S_gen_ok))>>),
               JObj(<<Field(K_items, Null)>>),
               JObj(<<Field(K_name, JArr(<<JStr(S_gen_ok)>>))>>) }

InitIndex ==
    raw \in IndexInputs /\ normalized = Unset /\ IdleCalls /\ IdleStore /\ IdleRest

NormalizeIndexData ==
    /\ normalized = Unset
    /\ normalized' = normalizeIndexData(raw)
    /\ UNCHANGED <<raw, notIndexVars>>

NextIndex == NormalizeIndexData

SpecIndex == InitIndex /\ [][NextIndex]_vars

\* The list of entries of a raw index that has one.
IsListInput(r) == r.t = "array" \/ (r.t = "object" /\ Prop(r, K_items).t = "array")
EntriesOf(r) == IF r.t = "array" THEN r.items ELSE Prop(r, K_items).items

\* The whole string is a generation id: gen_ (any case) and letters or digits.
IsGenerationId(v) == v.t = "string" /\ IsGenIdAt(v.s, 1, Len(v.s))

\* Some id can be found in the entry: in the string, or in the serialized object.
IdExtractable(e) ==
    \/ e.t = "string" /\ HasGenId(e.s)
    \/ IsObject(e) /\ HasGenId(JSON_stringify(e))

HasOwnId(e) == IsObject(e) /\ IsNonEmptyString(Prop(e, K_id))

CountOf(entries, P(_)) == Cardinality({i \in DOMAIN entries : P(entries[i])})

(***************************************************************************)
(* C5 as claimed: every record's id is a GenerationId, and an entry from   *)
(* which no such id can be extracted gives no record and is counted as     *)
(* skipped.                                                                *)
(***************************************************************************)
NotExtractable(e) == ~IdExtractable(e)

C5_Claimed_EveryIdIsGenerationId ==
    (normalized # Unset /\ IsListInput(raw)) =>
        /\ \A k \in DOMAIN normalized.items : IsGenerationId(normalized.items[k].id)
        /\ normalized.skipped = CountOf(EntriesOf(raw), NotExtractable)

(***************************************************************************)
(* C5 as amended: every record's id is a GenerationId or, for an object    *)
(* entry whose own id field is a non-empty string holding no GenerationId, *)
(* that field verbatim; an entry is dropped and counted as skipped exactly *)
(* when no GenerationId can be extracted from it and it has no non-empty   *)
(* string id field of its own.                                             *)
(***************************************************************************)
Dropped(e) == ~IdExtractable(e) /\ ~HasOwnId(e)

C5_IdIsGenerationIdOrOwnId ==
    (normalized # Unset /\ IsListInput(raw)) =>
        /\ \A k \in DOMAIN normalized.items :
              LET r == normalized.items[k]
              IN  \/ IsGenerationId(r.id)
                  \/ /\ HasOwnId(r.original)
                     /\ r.id = Prop(r.original, K_id)
                     /\ ~HasGenId(r.id.s)
        /\ normalized.skipped = CountOf(EntriesOf(raw), Dropped)
        /\ \A k \in DOMAIN normalized.items : ~Dropped(normalized.items[k].original)

\* A list with an object whose id field is "abc" and an object without any id:
\* the first is kept under the id "abc", the second is skipped.
C5_Witness ==
    /\ raw = JArr(<<JObj(<<Field(K_id, JStr(S_abc))>>), JObj(<<>>)>>)
    /\ normalized # Unset
    /\ Len(normalized.items) = 1
    /\ normalized.items[1].id = JStr(S_abc)
    /\ normalized.skipped = 1

(***************************************************************************)
(* C6: for a list of n entries normalizeIndexData does not throw, the      *)
(* number of records plus skipped is n, and the records come in the order  *)
(* of the entries they were made from; [null, "gen_ok"] gives one record   *)
(* and skipped = 1.                                                        *)
(***************************************************************************)
IsIncreasing(f) == \A a, b \in DOMAIN f : a < b => f[a] < f[b]

C6_ListNeverThrowsCountsAndOrder ==
    (normalized # Unset /\ IsListInput(raw)) =>
        LET entries == EntriesOf(raw)
        IN  /\ normalized.t = "result"
            /\ Len(normalized.items) + normalized.skipped = Len(entries)
            /\ \E f \in [DOMAIN normalized.items -> DOMAIN entries] :
                  /\ IsIncreasing(f)
                  /\ \A k \in DOMAIN normalized.items :
                         normalized.items[k].original = entries[f[k]]
            /\ (entries = <<Null, JStr(S_gen_ok)>> =>
                  /\ Len(normalized.items) = 1
                  /\ normalized.items[1].id = JStr(S_gen_ok)
                  /\ normalized.skipped = 1)

\* The example of the claim, under items: [null, "gen_ok"].
C6_Witness ==
    /\ raw = JObj(<<Field(K_items, JArr(<<Null, JStr(S_gen_ok)>>))>>)
    /\ normalized = IndexResult(
           <<IndexRecord(JStr(S_gen_ok), JStr(PageUrlPrefix \o S_gen_ok), Null,
                         Undefined, JStr(S_gen_ok))>>, 1)

(***************************************************************************)
(* C7: normalizeIndexData returns a result exactly for a top-level array   *)
(* or an object whose items field is an array; for every other input it    *)
(* throws the unsupported-format error, which carries no partial result.   *)
(***************************************************************************)
C7_OnlyListsSucceed ==
    normalized # Unset =>
        IF raw.t = "array" \/ (raw.t = "object" /\ Prop(raw, K_items).t = "array")
        THEN normalized.t = "result"
        ELSE normalized = Thrown(UnsupportedFormatMessage)

\* {} was given and the call threw.
C7_Witness ==
    raw = JObj(<<>>) /\ normalized = Thrown(UnsupportedFormatMessage)

(***************************************************************************)
(* C8 as claimed: for a record r made from an object entry, when the URL   *)
(* found under href/url/pageUrl/link holds no id or an id other than r.id, *)
(* r.pageUrl is the canonical URL built from r.id; so the id in r.pageUrl  *)
(* is r.id.                                                                *)
(***************************************************************************)
C8_Claimed_PageUrlAgreesWithId ==
    (normalized # Unset /\ IsListInput(raw)) =>
        \A k \in DOMAIN normalized.items :
            LET r == normalized.items[k]
            IN  (r.original.t = "object" /\ findPageUrl(r.original) # Null
                 /\ extractGenId(findPageUrl(r.original)) # r.id)
                    => r.pageUrl = buildPageUrl(r.id)

(***************************************************************************)
(* handleStorage.js (part_002, lines 398-464): the IndexedDB wrapper.      *)
(* The object store holds one value under KEY_ARCHIVE; `slot` is that      *)
(* value, Undefined when the key is absent.  A transaction either          *)
(* completes, and withStore resolves with what the callback returned, or   *)
(* fails (openDatabase rejects, tx.onerror), and withStore rejects and the *)
(* store is as before.                                                     *)
(***************************************************************************)
DirHandle(name) == [t |-> "handle", name |-> name]
Handles == {DirHandle("archive"), DirHandle("other")}

\* What store.get returns: the request object; its result is filled in when the
\* transaction completes.
IDBRequest(result) == [t |-> "IDBRequest", result |-> result]

DbError == Thrown("IndexedDB request failed")

\* The outcome of a call: the store afterwards and what the promise settles to.
Outcome(newSlot, ret) == [slot |-> newSlot, ret |-> ret]

\* saveDirectoryHandle: store.put(handle, KEY_ARCHIVE); the callback returns nothing.
saveDirectoryHandle(s, handle, dbOk) ==
    IF dbOk THEN Outcome(handle, Undefined) ELSE Outcome(s, DbError)

\* clearDirectoryHandle: store.delete(KEY_ARCHIVE)
clearDirectoryHandle(s, dbOk) ==
    IF dbOk THEN Outcome(Undefined, Undefined) ELSE Outcome(s, DbError)

\* getDirectoryHandle: withStore resolves with the callback's return value, which is
\* the IDBRequest of store.get, not its result; a rejection is caught and gives null.
getDirectoryHandle(s, dbOk) ==
    IF dbOk THEN Outcome(s, IDBRequest(s)) ELSE Outcome(s, Null)

(***************************************************************************)
(* fsScanner.js (part_001): ensureReadPermission and validateStoredHandle. *)
(* query and request are what handle.queryPermission and                   *)
(* handle.requestPermission do: a PermissionState, or "throw".  A value    *)
(* that is no directory handle has no queryPermission method: the call     *)
(* throws a TypeError inside the try block.                                *)
(***************************************************************************)
PermissionOutcomes == {"granted", "prompt", "denied", "throw"}

\* the methods of the handle that ensureReadPermission invokes (part_001:15-20),
\* in order, each with what it answered
permissionCalls(handle, query, request) ==
    IF handle.t # "handle" THEN <<>>
    ELSE IF query = "prompt"
    THEN <<[method |-> "queryPermission", answer |-> query],
           [method |-> "requestPermission", answer |-> request]>>
    ELSE <<[method |-> "queryPermission", answer |-> query]>>

\* A plausible slip: permission is also requested after the query said "denied".
ensureReadPermissionAskingAfterDenial(handle, query, request) ==
    IF handle.t # "handle" THEN FALSE
    ELSE IF query = "throw" THEN FALSE
    ELSE IF query = "granted" THEN TRUE
    ELSE request = "granted"

\* A plausible slip: the answer to the request is not looked at.
ensureReadPermissionIgnoringAnswer(handle, query, request) ==
    IF handle.t # "handle" THEN FALSE
    ELSE IF query = "throw" THEN FALSE
    ELSE IF query = "granted" THEN TRUE
    ELSE IF query = "prompt" THEN request # "throw"
    ELSE FALSE

ensureReadPermission(handle, query, request) ==
    IF handle.t # "handle" THEN FALSE
    ELSE IF query = "throw" THEN FALSE
    ELSE IF query = "granted" THEN TRUE
    ELSE IF query = "prompt" THEN request = "granted"
    ELSE FALSE

\* A plausible slip: null is returned but the stored handle is not forgotten.
validateStoredHandleKeepingSlot(s, handle, query, request, dbOk) ==
    IF ~ensureReadPermission(handle, query, request)
    THEN Outcome(s, Null)
    ELSE Outcome(s, handle)

validateStoredHandle(s, handle, query, request, dbOk) ==
    IF ~ensureReadPermission(handle, query, request)
    THEN LET cleared == clearDirectoryHandle(s, dbOk)
         IN  IF cleared.ret = DbError THEN cleared   \* await rejects: the error goes up
             ELSE Outcome(cleared.slot, Null)
    ELSE Outcome(s, handle)

(***************************************************************************)
(* Specification SpecStore: any sequence of calls of the handle store API. *)
(***************************************************************************)
Call(op, arg, query, request, dbOk, before, ret) ==
    [op |-> op, arg |-> arg, query |-> query, request |-> request, dbOk |-> dbOk,
     slotBefore |-> before, ret |-> ret]

InitStore == IdleStore /\ IdleCalls /\ IdleIndex /\ IdleRest

SaveDirectoryHandle ==
    \E h \in Handles, dbOk \in BOOLEAN :
        LET out == saveDirectoryHandle(slot, h, dbOk)
        IN  /\ slot' = out.slot
            /\ lastSaved' = IF dbOk THEN h ELSE lastSaved
            /\ call' = Call("save", h, "-", "-", dbOk, slot, out.ret)
            /\ UNCHANGED notStoreVars

ClearDirectoryHandle ==
    \E dbOk \in BOOLEAN :
        LET out == clearDirectoryHandle(slot, dbOk)
        IN  /\ slot' = out.slot
            /\ lastSaved' = IF dbOk THEN Undefined ELSE lastSaved
            /\ call' = Call("clear", Undefined, "-", "-", dbOk, slot, out.ret)
            /\ UNCHANGED notStoreVars

GetDirectoryHandle ==
    \E dbOk \in BOOLEAN :
        LET out == getDirectoryHandle(slot, dbOk)
        IN  /\ slot' = out.slot
            /\ call' = Call("get", Undefined, "-", "-", dbOk, slot, out.ret)
            /\ UNCHANGED <<lastSaved, notStoreVars>>

\* validateStoredHandle on a directory handle, or on what the last
\* getDirectoryHandle returned (as restorePreviousFolder calls it).
ValidateStoredHandle ==
    \E h \in Handles \cup (IF call # Unset /\ call.op = "get" /\ call.ret # Null
                          THEN {call.ret} ELSE {}),
       query \in PermissionOutcomes, request \in PermissionOutcomes,
       dbOk \in BOOLEAN :
        LET out == validateStoredHandle(slot, h, query, request, dbOk)
        IN  /\ slot' = out.slot
            /\ lastSaved' = IF out.slot = slot THEN lastSaved ELSE Undefined
            /\ call' = Call("validate", h, query, request, dbOk, slot, out.ret)
            /\ UNCHANGED notStoreVars

NextStore ==
    \/ SaveDirectoryHandle
    \/ ClearDirectoryHandle
    \/ GetDirectoryHandle
    \/ ValidateStoredHandle

SpecStore == InitStore /\ [][NextStore]_vars

Returned(op) == call # Unset /\ call.op = op

(***************************************************************************)
(* C3 as claimed: after any sequence of saves and clears,                  *)
(* getDirectoryHandle resolves to the handle of the most recent save that  *)
(* no clear followed, and to null or undefined when there is none.         *)
(***************************************************************************)
C3_Claimed_GetReturnsLastSaved ==
    (Returned("get") /\ call.dbOk) =>
        IF lastSaved = Undefined THEN call.ret \in {Null, Undefined}
        ELSE call.ret = lastSaved

(***************************************************************************)
(* C4 as claimed: validateStoredHandle(h) returns h and leaves the slot as *)
(* it was when read permission is granted; in every other case the slot is *)
(* empty afterwards and it returns null.                                   *)
(***************************************************************************)
\* Permission on h is granted, directly or after the request step.
PermissionGranted(c) ==
    /\ c.arg.t = "handle"
    /\ \/ c.query = "granted"
       \/ c.query = "prompt" /\ c.request = "granted"

getGenerationId(pathname) ==
    LET m == RegexExecFrom(pathname, 1)
    IN  IF m = <<>> THEN Null ELSE JStr(m)

(***************************************************************************)
(* sanitizeForFilename (part_000:299-308, data.js:228-236).  A character   *)
(* outside ASCII is written by its code point; NFKD is given by the        *)
(* decompositions of the characters the model uses.                        *)
(***************************************************************************)
MaxFileNameLength == 64

CombiningMarks == {"U+0301", "U+0308"}

\* value.normalize('NFKD'), one character
Decompose(c) ==
    CASE c = "U+00E9" -> <<"e", "U+0301">>      \* e with acute
      [] c = "U+00F6" -> <<"o", "U+0308">>      \* o with diaeresis
      [] c = "U+FB01" -> <<"f", "i">>           \* ligature fi
      [] OTHER -> <<c>>

\* A decomposition has at most two characters: position 2i-1 holds the first
\* character of the i-th decomposition, position 2i the second or nothing.
normalizeNFKD(s) ==
    SelectSeq([k \in 1..(2 * Len(s)) |->
                  LET d == Decompose(s[(k + 1) \div 2])
                      j == 2 - (k % 2)
                  IN  IF j <= Len(d) THEN d[j] ELSE ""],
              LAMBDA c : c # "")

\* .replace(/[̀-ͯ]/g, '')
stripCombiningMarks(s) == SelectSeq(s, LAMBDA c : c \notin CombiningMarks)

\* the class [a-z0-9\-_. ] with the i flag
IsAllowedChar(c) == IsAsciiAlnum(c) \/ c \in {"-", "_", ".", " "}

\* .replace(/[^a-z0-9\-_. ]+/gi, ' '): each run of other characters becomes one space
replaceDisallowedRuns(s) ==
    SelectSeq([i \in 1..Len(s) |->
                  IF IsAllowedChar(s[i]) THEN s[i]
                  ELSE IF i > 1 /\ ~IsAllowedChar(s[i - 1]) THEN ""
                  ELSE " "],
              LAMBDA c : c # "")

\* A plausible slip: the g flag is missing, only the first run is replaced.
replaceSpaceRunsFirstOnly(s) ==
    LET first == IF \E i \in 1..Len(s) : IsSpace(s[i])
                 THEN CHOOSE i \in 1..Len(s) :
                          IsSpace(s[i]) /\ \A j \in 1..(i - 1) : ~IsSpace(s[j])
                 ELSE 0
    IN  SelectSeq([i \in 1..Len(s) |->
                      IF ~IsSpace(s[i]) THEN s[i]
                      ELSE IF i = first THEN "_"
                      ELSE IF \A j \in first..i : IsSpace(s[j]) THEN ""
                      ELSE s[i]],
                  LAMBDA c : c # "")

\* .replace(/\s+/g, '_'): each run of white space becomes one underscore
replaceSpaceRuns(s) ==
    SelectSeq([i \in 1..Len(s) |->
                  IF ~IsSpace(s[i]) THEN s[i]
                  ELSE IF i > 1 /\ IsSpace(s[i - 1]) THEN ""
                  ELSE "_"],
              LAMBDA c : c # "")

\* .slice(0, n)
slice0(s, n) == SubSeq(s, 1, IF Len(s) < n THEN Len(s) ELSE n)

sanitizeForFilename(v) ==
    IF v = <<>> THEN <<>>
    ELSE slice0(replaceSpaceRuns(trim(replaceDisallowedRuns(
             stripCombiningMarks(normalizeNFKD(v))))), MaxFileNameLength)

(***************************************************************************)
(* determineExtension (part_000:501-513).  new URL(url) accepts an         *)
(* absolute https URL and throws on a relative reference; pathname is the  *)
(* part from the first slash after the host up to the query or fragment.   *)
(***************************************************************************)
\* The first position of s from i on whose character is in cs; Len(s) + 1 if none.
IndexOfAny(s, cs, i) ==
    LET found == {k \in i..Len(s) : s[k] \in cs}
    IN  IF found = {} THEN Len(s) + 1
        ELSE CHOOSE k \in found : \A k2 \in found : k <= k2

\* new URL(url).pathname; Null when the constructor throws.
UrlPathname(url) ==
    IF ~startsWith(url, <<"h","t","t","p","s",":","/","/">>) THEN Null
    ELSE LET hostFrom == Len(<<"h","t","t","p","s",":","/","/">>) + 1
             hostEnd == IndexOfAny(url, {"/", "?", "#"}, hostFrom)
             pathEnd == IndexOfAny(url, {"?", "#"}, hostEnd)
         IN  IF hostEnd = hostFrom THEN Null          \* no host
             ELSE IF hostEnd > Len(url) \/ url[hostEnd] # "/" THEN JStr(<<"/">>)
             ELSE JStr(SubSeq(url, hostEnd, pathEnd - 1))

\* s.split(sep).pop(): the part after the last sep, all of s when it has none
LastSegment(s, sep) ==
    LET found == {k \in 1..Len(s) : s[k] = sep}
        last == IF found = {} THEN 0
                ELSE CHOOSE k \in found : \A k2 \in found : k >= k2
    IN  SubSeq(s, last + 1, Len(s))

stringToLowerCase(s) == [i \in DOMAIN s |-> toLowerCase(s[i])]

MaxExtensionLength == 5
determineExtension(url, kind) ==
    LET pathname == UrlPathname(url)
        ext == IF pathname = Null THEN <<>>
               ELSE LastSegment(LastSegment(pathname.s, "/"), ".")
    IN  IF ext # <<>> /\ Len(ext) <= MaxExtensionLength THEN stringToLowerCase(ext)
        ELSE IF kind = "video" THEN <<"m","p","4">> ELSE <<"w","e","b","p">>

(***************************************************************************)
(* runDownloadFlow (part_000:526-568).  The page is its pathname, what     *)
(* waitForMedia finds on it (a candidate, or the timeout error), and what  *)
(* extractPromptText reads from it; fetch1 and fetch2 are how the two      *)
(* fetch calls end.  The result is the downloads triggered, in order, the  *)
(* last status the flow put on the banner (Unset: none) and the error      *)
(* thrown, if any.                                                         *)
(***************************************************************************)
Origin == <<"h","t","t","p","s",":","/","/","s","o","r","a",".","c","h","a","t","g",
            "p","t",".","c","o","m">>
GenPrefix == <<"g","e","n","_">>
AssetLiteral == <<"a","s","s","e","t">>
MaxTitleLength == 80
K_Prompt == <<"P","r","o","m","p","t">>
K_SuggestedBaseName ==
    <<"S","u","g","g","e","s","t","e","d","B","a","s","e","N","a","m","e">>
MediaCandidate(url, kind) == [t |-> "media", url |-> url, kind |-> kind]
TimedOut == Thrown("Timed out waiting for media to load.")
FetchOutcomes == {"ok", "http_error", "reject"}

\* The content of a file: JSON text that parses to `json`, text that does not
\* parse, white space only, or the bytes of a picture or film.
JsonText(json) == [t |-> "text", form |-> "json", json |-> json]
BadText == [t |-> "text", form |-> "garbage", json |-> Null]
BlankText == [t |-> "text", form |-> "blank", json |-> Null]
MediaBytes == [t |-> "bytes"]

BannerText(text) == [t |-> "status", text |-> text]
Download(name, content) == [name |-> name, content |-> content]
FlowResult(triggered, status, error) ==
    [downloads |-> triggered, status |-> status, error |-> error]

\* .replace(/_/g, ' ')
underscoresToSpaces(s) == [i \in DOMAIN s |-> IF s[i] = "_" THEN " " ELSE s[i]]

\* lines 533-537: the names.  `id` already starts with gen_, and the template
\* literals put gen_ before it once more.
BaseName(id, sanitizedPrompt) == GenPrefix \o id.s \o <<"-","-">> \o sanitizedPrompt
MediaFileName(id, sanitizedPrompt, extension) ==
    BaseName(id, sanitizedPrompt) \o <<".">> \o extension
MetaFileName(id) ==
    GenPrefix \o id.s \o <<".","m","e","t","a",".","j","s","o","n">>

SanitizedPrompt(prompt) ==
    IF sanitizeForFilename(prompt) # <<>> THEN sanitizeForFilename(prompt)
    ELSE AssetLiteral

MetaObject(pathname, media, prompt, id) ==
    LET title == slice0(underscoresToSpaces(SanitizedPrompt(prompt)), MaxTitleLength)
    IN  JObj(<< Field(<<"S","o","u","r","c","e","U","R","L">>, JStr(Origin \o pathname)),
                Field(<<"A","s","s","e","t","U","R","L">>, JStr(media.url)),
                Field(K_Prompt, JStr(prompt)),
                Field(<<"T","i","t","l","e">>, IF title # <<>> THEN JStr(title) ELSE id),
                Field(<<"K","i","n","d">>, JStr(IF media.kind = "video" THEN <<"v","i","d","e","o">>
                                   ELSE <<"i","m","a","g","e">>)),
                Field(K_SuggestedBaseName,
                      JStr(BaseName(id, SanitizedPrompt(prompt)))) >>)

runDownloadFlow(pathname, media, prompt, fetch1, fetch2) ==
    LET id == getGenerationId(pathname)
        response == IF fetch1 = "reject" THEN fetch2 ELSE fetch1
    IN  IF id = Null
        THEN FlowResult(<<>>, Unset,
                        Thrown("Could not determine generation id from URL."))
        ELSE IF media.t = "error"
        THEN FlowResult(<<>>, BannerText("Locating media"), TimedOut)
        ELSE IF response = "reject"
        THEN FlowResult(<<>>, BannerText("Downloading media"), Thrown("Failed to fetch"))
        ELSE IF response = "http_error"
        THEN FlowResult(<<>>, BannerText("Downloading media"),
                        Thrown("Failed to download media (status)."))
        ELSE FlowResult(
                 << Download(MediaFileName(id, SanitizedPrompt(prompt),
                                           determineExtension(media.url, media.kind)),
                             MediaBytes),
                    Download(MetaFileName(id),
                             JsonText(MetaObject(pathname, media, prompt, id))) >>,
                 BannerText("Downloads complete"), Null)

(***************************************************************************)
(* The archive scanner (part_001).  A directory is the sequence of its     *)
(* entries in the order handle.entries() yields them; an entry is a file   *)
(* with a name and a content, or a directory with a name and entries.      *)
(***************************************************************************)
FileEntry(name, content) == [kind |-> "file", name |-> name, content |-> content]
DirectoryEntry(name, entries) ==
    [kind |-> "directory", name |-> name, entries |-> entries]
Unreadable == [t |-> "unreadable"]        \* getFile() rejects

MEDIA_EXTENSIONS ==
    { <<"p","n","g">>, <<"j","p","g">>, <<"j","p","e","g">>, <<"g","i","f">>,
      <<"w","e","b","p">>, <<"m","p","4">>, <<"w","e","b","m">>, <<"m","o","v">>,
      <<"m","4","v">> }

MetaSuffix == <<".","m","e","t","a",".","j","s","o","n">>

\* /\.meta\.json$/i.test(name)
isMetaFile(name) ==
    /\ Len(name) >= Len(MetaSuffix)
    /\ \A k \in 1..Len(MetaSuffix) :
           toLowerCase(name[Len(name) - Len(MetaSuffix) + k]) = MetaSuffix[k]

isMediaFile(name) == stringToLowerCase(LastSegment(name, ".")) \in MEDIA_EXTENSIONS

extractIdFromName(name) ==
    IF name = <<>> THEN Null
    ELSE IF extractGenId(JStr(name)) # Null THEN extractGenId(JStr(name))
    ELSE extractGenId(JStr(IF isMetaFile(name)
                           THEN SubSeq(name, 1, Len(name) - Len(MetaSuffix))
                           ELSE name))

\* readMetaFile: the parsed JSON, or the error it throws
readMetaFile(file) ==
    IF file.content.t = "text" /\ file.content.form = "json" THEN file.content.json
    ELSE Thrown(<<"Failed to read", file.name,
                  IF file.content.t = "unreadable" THEN "NotReadableError"
                  ELSE "SyntaxError">>)

\* walkDirectory: the files in the order onFile sees them, each with its path
RECURSIVE walkDirectory(_, _)
walkDirectory(entries, path) ==
    IF entries = <<>> THEN <<>>
    ELSE LET e == Head(entries)
             nextPath == Append(path, e.name)
         IN  (IF e.kind = "directory" THEN walkDirectory(e.entries, nextPath)
              ELSE <<[name |-> e.name, path |-> nextPath, content |-> e.content]>>)
             \o walkDirectory(Tail(entries), path)

NewEntry == [files |-> <<>>, meta |-> Undefined, metaError |-> Undefined]
ensureEntry(byId, id) == IF id \in DOMAIN byId THEN byId ELSE (id :> NewEntry) @@ byId

ScanResult(byId, mediaCount, metaCount, errors) ==
    [byId |-> byId, mediaCount |-> mediaCount, metaCount |-> metaCount,
     errors |-> errors]
\* A plausible slip: a sidecar that parses does not clear the error of an
\* earlier one.
onFileKeepingError(acc, file) ==
    LET id == extractIdFromName(file.name)
    IN  IF id = Null THEN acc
        ELSE IF isMetaFile(file.name)
        THEN LET meta == readMetaFile(file)
                 byId == ensureEntry(acc.byId, id.s)
             IN  IF meta.t # "error"
                 THEN [acc EXCEPT !.byId = [byId EXCEPT ![id.s].meta = meta],
                                  !.metaCount = @ + 1]
                 ELSE [acc EXCEPT !.byId = [byId EXCEPT ![id.s].metaError =
                                                            meta.message],
                                  !.errors = Append(@, meta.message)]
        ELSE IF isMediaFile(file.name)
        THEN [acc EXCEPT !.byId = [ensureEntry(acc.byId, id.s) EXCEPT
                                       ![id.s].files =
                                           Append(@, [t |-> "file",
                                                      name |-> file.name,
                                                      path |-> file.path])],
                         !.mediaCount = @ + 1]
        ELSE acc


\* the callback scanArchiveDirectory gives to walkDirectory (lines 87-112)
onFile(acc, file) ==
    LET id == extractIdFromName(file.name)
    IN  IF id = Null THEN acc
        ELSE IF isMetaFile(file.name)
        THEN LET meta == readMetaFile(file)
                 byId == ensureEntry(acc.byId, id.s)
             IN  IF meta.t # "error"
                 THEN [acc EXCEPT !.byId = [byId EXCEPT ![id.s].meta = meta,
                                                        ![id.s].metaError = Undefined],
                                  !.metaCount = @ + 1]
                 ELSE [acc EXCEPT !.byId = [byId EXCEPT ![id.s].metaError =
                                                            meta.message],
                                  !.errors = Append(@, meta.message)]
        ELSE IF isMediaFile(file.name)
        THEN [acc EXCEPT !.byId = [ensureEntry(acc.byId, id.s) EXCEPT
                                       ![id.s].files =
                                           Append(@, [t |-> "file",
                                                      name |-> file.name,
                                                      path |-> file.path])],
                         !.mediaCount = @ + 1]
        ELSE acc

\* A plausible slip: the failure of a sidecar is not caught and ends the walk.
RECURSIVE ScanFilesUntilError(_, _)
ScanFilesUntilError(files, acc) ==
    IF files = <<>> THEN acc
    ELSE LET next == onFile(acc, Head(files))
         IN  IF Len(next.errors) > Len(acc.errors) THEN next
             ELSE ScanFilesUntilError(Tail(files), next)

RECURSIVE ScanFiles(_, _)
ScanFiles(files, acc) ==
    IF files = <<>> THEN acc ELSE ScanFiles(Tail(files), onFile(acc, Head(files)))

\* A plausible slip: the map and the counts outlive the call.
scanArchiveDirectoryOntoLast(entries) ==
    ScanFiles(walkDirectory(entries, <<>>),
              IF output = Unset THEN ScanResult(<<>>, 0, 0, <<>>) ELSE output)

scanArchiveDirectory(entries) ==
    ScanFiles(walkDirectory(entries, <<>>), ScanResult(<<>>, 0, 0, <<>>))

(***************************************************************************)
(* data.js: parseIndexFile and resolvePrompt.                              *)
(***************************************************************************)
ParseFailed(cause) == [text |-> "Failed to parse index file", cause |-> cause]

\* parseIndexFile: {items, skipped}, or the error it throws
parseIndexFile(file) ==
    IF file.content.form = "blank"
    THEN Thrown([text |-> "Index file is empty.", cause |-> "-"])
    ELSE IF file.content.form # "json" THEN Thrown(ParseFailed("SyntaxError"))
    ELSE LET result == normalizeIndexData(file.content.json)
         IN  IF result.t = "error" THEN Thrown(ParseFailed(result.message))
             ELSE result

\* A plausible slip: the record's own prompt is looked at before the sidecar's.
resolvePromptRecordFirst(entry, meta) ==
    IF entry.t = "record" /\ IsString(entry.prompt) /\ trim(entry.prompt.s) # <<>>
    THEN trim(entry.prompt.s)
    ELSE IF IsString(Prop(meta, K_Prompt)) /\ trim(Prop(meta, K_Prompt).s) # <<>>
    THEN trim(Prop(meta, K_Prompt).s)
    ELSE IF entry.t = "record" /\ IsString(Prop(entry.original, K_prompt))
    THEN trim(Prop(entry.original, K_prompt).s)
    ELSE <<>>

\* data.js:210-221.  `entry &&` and `entry?.original` let a null entry through;
\* a property read on a meta or an original that is not an object is undefined.
resolvePrompt(entry, meta) ==
    IF IsString(Prop(meta, K_Prompt)) /\ trim(Prop(meta, K_Prompt).s) # <<>>
    THEN trim(Prop(meta, K_Prompt).s)
    ELSE IF entry.t = "record" /\ IsString(entry.prompt) /\ trim(entry.prompt.s) # <<>>
    THEN trim(entry.prompt.s)
    ELSE IF entry.t = "record" /\ IsString(Prop(entry.original, K_prompt))
    THEN trim(Prop(entry.original, K_prompt).s)
    ELSE <<>>

(***************************************************************************)
(* The harvest page (harvest.js) and the gallery page (part_002).  What a  *)
(* page shows is kept as data: the list or grid as the sequence of its     *)
(* items, a status line as the message and its numbers.                    *)
(***************************************************************************)
EmptyArchive == ScanResult(<<>>, 0, 0, <<>>)

\* archiveData.byId.get(id).meta, undefined when the map has no entry (?.)
MetaOf(byId, id) == IF id.s \in DOMAIN byId THEN byId[id.s].meta ELSE Undefined

\* A plausible slip: one file is not enough.
isMissingOffByOne(byId, item) ==
    item.id.s \notin DOMAIN byId \/ Len(byId[item.id.s].files) <= 1

\* harvest.js:61-62 and 213-216: !offlineEntry || offlineEntry.files.length === 0
isMissing(byId, item) ==
    item.id.s \notin DOMAIN byId \/ Len(byId[item.id.s].files) = 0

\* part_002:63, 155: offlineEntry && offlineEntry.files.length > 0
hasOfflineFile(byId, item) ==
    item.id.s \in DOMAIN byId /\ Len(byId[item.id.s].files) > 0

Rendered(items, notice, text, previews) ==
    [listing |-> [items |-> items, notice |-> notice], summary |-> text,
     previews |-> previews]

RECURSIVE HarvestItems(_, _, _)
HarvestItems(index, byId, i) ==
    IF i > Len(index) THEN <<>>
    ELSE (IF isMissing(byId, index[i])
          THEN <<[id |-> index[i].id,
                  badge |-> "Missing",
                  prompt |-> resolvePrompt(index[i], MetaOf(byId, index[i].id)),
                  href |-> index[i].pageUrl]>>
          ELSE <<>>)
         \o HarvestItems(index, byId, i + 1)

renderHarvestList(index, archive) ==
    IF Len(index) = 0
    THEN Rendered(<<>>, "Load an index to view missing items.",
                  [t |-> "load-index"], {})
    ELSE LET items == HarvestItems(index, archive.byId, 1)
         IN  IF Len(items) = 0
             THEN Rendered(<<>>, "All caught up!",
                           [t |-> "pending", missing |-> 0, total |-> Len(index)], {})
             ELSE Rendered(items, "none",
                           [t |-> "pending", missing |-> Len(items),
                            total |-> Len(index)], {})

\* A plausible slip: any entry of the scan counts, also one with no media file.
createBadgeByEntry(byId, item) ==
    IF item.id.s \in DOMAIN byId THEN "Offline" ELSE "Missing"

\* preferOfflineCheckbox.checked, set at part_002:36-38
PreferOffline == TRUE

createBadge(byId, item) ==
    IF item.id.s \in DOMAIN byId /\ Len(byId[item.id.s].files) > 0
    THEN "Offline" ELSE "Missing"

\* createCard: what the card shows, and the file whose preview it asks for
createCard(byId, item) ==
    [id |-> item.id,
     badge |-> createBadge(byId, item),
     prompt |-> resolvePrompt(item, MetaOf(byId, item.id)),
     src |-> IF item.thumbUrl.t = "string" /\ item.thumbUrl.s # <<>> /\ ~PreferOffline
             THEN item.thumbUrl ELSE JStr(<<>>),
     preview |-> IF hasOfflineFile(byId, item)
                    /\ (PreferOffline \/ ~(item.thumbUrl.t = "string"
                                           /\ item.thumbUrl.s # <<>>))
                 THEN byId[item.id.s].files[1] ELSE Null,
     online |-> item.pageUrl,
     offlineDisabled |-> (item.id.s \notin DOMAIN byId
                          \/ Len(byId[item.id.s].files) = 0)]

RECURSIVE CountOffline(_, _, _)
CountOffline(index, byId, i) ==
    IF i > Len(index) THEN 0
    ELSE (IF hasOfflineFile(byId, index[i]) THEN 1 ELSE 0)
         + CountOffline(index, byId, i + 1)

formatStats(index, archive) ==
    [t |-> "stats", total |-> Len(index),
     offline |-> CountOffline(index, archive.byId, 1),
     missing |-> Len(index) - CountOffline(index, archive.byId, 1)]

\* renderGallery with the search box empty, as it is when the page opens
renderGallery(index, archive) ==
    LET cards == [i \in 1..Len(index) |-> createCard(archive.byId, index[i])]
    IN  Rendered(cards, IF Len(cards) = 0 THEN "No results." ELSE "none",
                 formatStats(index, archive),
                 {cards[i].preview : i \in {k \in 1..Len(cards) :
                                                cards[k].preview.t # "null"}})

(***************************************************************************)
(* The handlers of the two pages.  Each takes the state of the page, with  *)
(* the stored handle, as a record and returns the state it leaves.         *)
(***************************************************************************)
Pages == {"gallery", "harvest"}

PageState ==
    [slot |-> slot, normalizedIndex |-> normalizedIndex, archiveData |-> archiveData,
     indexStatus |-> indexStatus, archiveStatus |-> archiveStatus,
     listing |-> listing, summary |-> summary,
     archiveNoticeHidden |-> archiveNoticeHidden,
     objectUrlCache |-> objectUrlCache, pendingPreviews |-> pendingPreviews,
     connected |-> FALSE]

SetPageState(st) ==
    /\ slot' = st.slot
    /\ normalizedIndex' = st.normalizedIndex
    /\ archiveData' = st.archiveData
    /\ indexStatus' = st.indexStatus
    /\ archiveStatus' = st.archiveStatus
    /\ listing' = st.listing
    /\ summary' = st.summary
    /\ archiveNoticeHidden' = st.archiveNoticeHidden
    /\ objectUrlCache' = st.objectUrlCache
    /\ pendingPreviews' = st.pendingPreviews

Status(state, message) == [t |-> state, message |-> message]

\* renderHarvestList() on the harvest page, renderGallery() on the gallery page
render(st, pg) ==
    LET r == IF pg = "harvest"
             THEN renderHarvestList(st.normalizedIndex, st.archiveData)
             ELSE renderGallery(st.normalizedIndex, st.archiveData)
    IN  [st EXCEPT !.listing = r.listing, !.summary = r.summary,
                   !.pendingPreviews = @ \cup r.previews]

NoFile == [kind |-> "none"]

\* A plausible slip: the list is emptied before the file is known to parse.
handleIndexFileSelectionClearingFirst(st, pg, file) ==
    IF file.kind = "none" THEN st
    ELSE LET result == parseIndexFile(file)
         IN  IF result.t = "error"
             THEN [st EXCEPT !.normalizedIndex = <<>>,
                             !.indexStatus = Status("error", result.message)]
             ELSE render([st EXCEPT
                            !.normalizedIndex = result.items,
                            !.indexStatus =
                                [t |-> "success", loaded |-> Len(result.items),
                                 skipped |-> result.skipped]], pg)


\* handleIndexFileSelection (harvest.js:112-126, part_002:278-292)
handleIndexFileSelection(st, pg, file) ==
    IF file.kind = "none" THEN st
    ELSE LET result == parseIndexFile(file)
         IN  IF result.t = "error"
             THEN [st EXCEPT !.indexStatus = Status("error", result.message)]
             ELSE render([st EXCEPT
                            !.normalizedIndex = result.items,
                            !.indexStatus =
                                [t |-> "success", loaded |-> Len(result.items),
                                 skipped |-> result.skipped]], pg)

\* connectArchiveDirectory (harvest.js:153-173, part_002:328-352).  env holds
\* the answers of the two permission calls (query, request), whether the
\* IndexedDB transaction completes (dbOk) and whether the directory can be
\* walked (diskOk); entries is what the directory holds.
connectArchiveDirectory(st, pg, directory, persistHandle, env, entries) ==
    IF directory.t \in {"null", "undefined"} THEN [st EXCEPT !.connected = FALSE]
    ELSE IF ~ensureReadPermission(directory, env.query, env.request)
    THEN [st EXCEPT !.archiveStatus =
                        Status("info", "Permission denied for the selected folder."),
                    !.connected = FALSE]
    ELSE LET revoked == IF pg = "gallery" THEN [st EXCEPT !.objectUrlCache = {}]
                        ELSE st
             saved == IF persistHandle
                      THEN saveDirectoryHandle(st.slot, directory, env.dbOk)
                      ELSE Outcome(st.slot, Undefined)
             scanned == scanArchiveDirectory(entries)
         IN  IF saved.ret.t = "error"
             THEN [revoked EXCEPT !.archiveStatus = Status("info", saved.ret.message),
                                  !.connected = FALSE]
             ELSE IF ~env.diskOk
             THEN [revoked EXCEPT !.slot = saved.slot,
                                  !.archiveStatus = Status("info", "NotFoundError"),
                                  !.connected = FALSE]
             ELSE render([revoked EXCEPT
                            !.slot = saved.slot,
                            !.archiveData = scanned,
                            !.archiveStatus =
                                [t |-> "connected", media |-> scanned.mediaCount,
                                 meta |-> scanned.metaCount],
                            !.archiveNoticeHidden =
                                IF pg = "gallery" THEN JBool(TRUE) ELSE @,
                            !.connected = TRUE], pg)

PickerOutcomes == {"picked", "AbortError", "SecurityError"}

\* pickArchiveFolder (harvest.js:128-139, part_002:294-308)
pickArchiveFolder(st, pg, env, entries) ==
    IF env.picker = "AbortError" THEN st
    ELSE IF env.picker # "picked"
    THEN [st EXCEPT !.archiveStatus = Status("info", env.picker)]
    ELSE LET after == connectArchiveDirectory(st, pg, DirHandle("archive"), TRUE,
                                              env, entries)
         IN  IF pg = "gallery" /\ ~after.connected
             THEN [after EXCEPT !.archiveNoticeHidden = JBool(FALSE)]
             ELSE after

\* buildAutoUrl (harvest.js:188-192)
buildAutoUrl(url, appendAuto) ==
    IF ~appendAuto THEN url
    ELSE JStr(url.s \o (IF \E i \in DOMAIN url.s : url.s[i] = "?" THEN <<"&">>
                        ELSE <<"?">>) \o <<"a","u","t","o","=","1">>)

\* updateProgress (harvest.js:194-202); Math.round of a non-negative quotient
updateProgress(current, total) ==
    [current |-> current, total |-> total,
     percent |-> IF total = 0 THEN 0 ELSE (200 * current + total) \div (2 * total)]

\* openMissing (harvest.js:204-235): the pages it opens, in order, the progress
\* it leaves and the alert it shows.
openMissing(index, archive, limit, appendAuto, before) ==
    IF Len(index) = 0
    THEN [opened |-> <<>>, progress |-> before,
          alerted |-> Status("alert", "Load the gallery index first.")]
    ELSE LET missingItems == SelectSeq(index, LAMBDA item : isMissing(archive.byId, item))
             selected == IF limit > 0 THEN slice0(missingItems, limit) ELSE missingItems
         IN  IF Len(missingItems) = 0
             THEN [opened |-> <<>>, progress |-> before,
                   alerted |-> Status("alert", "All items already have offline files.")]
             ELSE [opened |-> [i \in 1..Len(selected) |->
                                  [id |-> selected[i].id,
                                   url |-> buildAutoUrl(selected[i].pageUrl, appendAuto)]],
                   progress |-> updateProgress(Len(selected), Len(selected)),
                   alerted |-> Null]

(***************************************************************************)
(* The actions of a page, shared by the specifications below.              *)
(***************************************************************************)
InitPage ==
    /\ page \in Pages
    /\ normalizedIndex = <<>> /\ archiveData = EmptyArchive
    /\ indexStatus = Unset /\ archiveStatus = Unset /\ listing = Unset
    /\ summary = Unset /\ progress = Unset /\ opened = <<>> /\ alerted = Unset
    /\ archiveNoticeHidden = Unset /\ objectUrlCache = {} /\ pendingPreviews = {}

\* The user chooses one of `files` in the file dialog, or closes it.
HandleIndexFileSelectionFrom(files) ==
    /\ \E file \in files \cup {NoFile} :
           \E after \in {handleIndexFileSelection(PageState, page, file)} :
               SetPageState(after)
    /\ UNCHANGED <<callVars, indexVars, lastSaved, call, scriptVars, disk, page,
                   progress, opened, alerted>>

\* How the world answers one connect attempt: the folder picker, the two
\* permission calls, the IndexedDB transaction and the directory walk.  An answer
\* that is never asked for (the request when the query did not say "prompt",
\* the store and the walk when permission was not granted or nothing was
\* picked) is fixed, since it changes nothing.
ConnectEnvironments ==
    { env \in [picker : PickerOutcomes, query : PermissionOutcomes,
               request : PermissionOutcomes, dbOk : BOOLEAN, diskOk : BOOLEAN] :
        /\ env.picker # "picked" => env.query = "granted"
        /\ env.query # "prompt" => env.request = "granted"
        /\ ~(env.picker = "picked"
             /\ ensureReadPermission(DirHandle("archive"), env.query, env.request))
               => (env.dbOk /\ env.diskOk)
        /\ ~env.dbOk => env.diskOk }

\* The user clicks "connect folder" and picks the archive folder, or does not.
PickArchiveFolder ==
    /\ \E env \in ConnectEnvironments :
           \E after \in {pickArchiveFolder(PageState, page, env, disk)} :
               SetPageState(after)
    /\ UNCHANGED <<callVars, indexVars, lastSaved, call, scriptVars, disk, page,
                   progress, opened, alerted>>

\* #open-limit as Number(value) || 0
Limits == {-1, 0, 1, 2}

\* The user clicks "open missing" on the harvest page.
OpenMissing ==
    /\ page = "harvest"
    /\ \E limit \in Limits, appendAuto \in BOOLEAN :
           \E r \in {openMissing(normalizedIndex, archiveData, limit, appendAuto,
                                  progress)} :
               /\ opened' = r.opened
               /\ progress' = r.progress
               /\ alerted' = r.alerted
    /\ UNCHANGED <<callVars, indexVars, storeVars, scriptVars, disk, page,
                   normalizedIndex, archiveData, indexStatus, archiveStatus, listing,
                   summary, archiveNoticeHidden, objectUrlCache, pendingPreviews>>

\* applyOfflinePreview (part_002:119-145) completes for one card: the object URL
\* is cached under the file's name and date (all files of the model have one
\* date), unless getFile() rejects.
ApplyOfflinePreview ==
    /\ page = "gallery"
    /\ \E file \in pendingPreviews, fileOk \in BOOLEAN :
           /\ pendingPreviews' = pendingPreviews \ {file}
           /\ objectUrlCache' = IF fileOk THEN objectUrlCache \cup {file.name}
                                ELSE objectUrlCache
    /\ UNCHANGED <<callVars, indexVars, storeVars, scriptVars, disk, page,
                   normalizedIndex, archiveData, indexStatus, archiveStatus, listing,
                   summary, progress, opened, alerted, archiveNoticeHidden>>

(***************************************************************************)
(* The Sora pages of the model: a path, the media waitForMedia finds and   *)
(* the prompt extractPromptText reads.                                     *)
(***************************************************************************)
Path_a1 == <<"/","g","/","g","e","n","_","a","1">>
Path_B2 == <<"/","g","/","G","E","N","_","b","2">>
Path_none == <<"/","g","/","a","b","c">>
Url_mp4 == <<"h","t","t","p","s",":","/","/","v",".","i","o","/","a","/","b",".","m",
      "p","4","?","s","=","1">>
Url_WEBP == <<"h","t","t","p","s",":","/","/","v",".","i","o","/","x",".","y","/","i",
      "m","g",".","W","E","B","P">>
Url_clip == <<"h","t","t","p","s",":","/","/","v",".","i","o","/","a","/","c","l","i",
      "p">>
Url_long == <<"h","t","t","p","s",":","/","/","v",".","i","o","/","a","/","a","b","c",
      "d","e","f","g","h","#","t">>
Url_relative == <<"/","r","e","l","/","a",".","p","n","g">>
Prompt_cat == <<" "," ","a"," ","c","a","t","!"," "," ">>
Prompt_accents == <<"H","U+00E9","l","l","o",","," ","w","U+00F6","r","l","d","_","1",
      " ","-","-"," ","x",".","y">>
Prompt_marks == <<"?","!">>
\* longer than MaxFileNameLength once sanitized
Prompt_long == Concat([i \in 1..(MaxFileNameLength \div 4) |-> <<"a","b","c","d"," ">>])

PagePaths == {JStr(Path_a1), JStr(Path_B2), JStr(Path_none)}
MediaPool ==
    { MediaCandidate(Url_mp4, "video"), MediaCandidate(Url_WEBP, "image"),
      MediaCandidate(Url_clip, "video"), MediaCandidate(Url_long, "video"),
      MediaCandidate(Url_relative, "image"), TimedOut }
PromptPool ==
    {JStr(Prompt_cat), JStr(Prompt_accents), JStr(Prompt_marks), JStr(Prompt_long),
     JStr(<<>>)}

\* an index that lists the generations of the pages
RoundTripIndexFile ==
    FileEntry(<<"i",".","j","s","o","n">>,
              JsonText(JArr(<< JStr(<<"g","e","n","_","a","1">>),
                               JObj(<<Field(K_id, JStr(<<"G","E","N","_","b","2">>))>>)
                            >>)))

InitScript(paths, media, prompts) ==
    /\ pagePath \in paths /\ pageMedia \in media /\ pagePrompt \in prompts
    /\ downloads = <<>> /\ bannerStatus = Unset /\ flowResult = Unset

\* One run of the userscript on the page; downloads holds what this run triggered.
RunDownloadFlow ==
    /\ \E fetch1 \in FetchOutcomes, fetch2 \in FetchOutcomes :
           \E r \in {runDownloadFlow(pagePath.s, pageMedia, pagePrompt.s, fetch1,
                                      fetch2)} :
               /\ downloads' = r.downloads
               /\ bannerStatus' = IF r.status.t = "unset" THEN bannerStatus
                                  ELSE r.status
               /\ flowResult' = r.error
    /\ UNCHANGED <<callVars, indexVars, storeVars, pagePath, pageMedia, pagePrompt,
                   disk, pageVars>>

(***************************************************************************)
(* Specification SpecDownload: the userscript alone, on every page the     *)
(* pools give.                                                             *)
(***************************************************************************)
InitDownload ==
    /\ InitScript(PagePaths, MediaPool, PromptPool)
    /\ disk = <<>> /\ IdlePage /\ IdleCalls /\ IdleIndex /\ IdleStore

SpecDownload == InitDownload /\ [][RunDownloadFlow]_vars

\* C2, as stated: on a page whose path holds the generation id X, a run that
\* completes has named the media file exactly X--S.E and the sidecar exactly
\* X.meta.json, and has written X--S as SuggestedBaseName, S being the sanitized
\* prompt (asset when that is empty) and E the extension chosen for the media.
C2_Claimed_NamesAreIdDashPrompt ==
    flowResult.t = "null" =>
        LET X == getGenerationId(pagePath.s).s
            S == IF sanitizeForFilename(pagePrompt.s) = <<>> THEN AssetLiteral
                 ELSE sanitizeForFilename(pagePrompt.s)
            E == determineExtension(pageMedia.url, pageMedia.kind)
        IN  /\ Len(downloads) = 2
            /\ downloads[1].name = X \o <<"-","-">> \o S \o <<".">> \o E
            /\ downloads[2].name = X \o <<".","m","e","t","a",".","j","s","o","n">>
            /\ Prop(downloads[2].content.json, K_SuggestedBaseName)
                   = JStr(X \o <<"-","-">> \o S)

(***************************************************************************)
(* Specification SpecRoundTrip: the userscript on a page, the archive      *)
(* folder, and a gallery or harvest page.  The userscript runs, the user   *)
(* files what it downloaded in the empty archive folder, loads the index   *)
(* and connects the folder.                                                *)
(***************************************************************************)
InitRoundTrip ==
    /\ InitScript(PagePaths,
                  {MediaCandidate(Url_mp4, "video"), MediaCandidate(Url_clip, "video")},
                  {JStr(Prompt_cat), JStr(Prompt_marks)})
    /\ disk = <<>>
    /\ InitPage
    /\ IdleCalls /\ IdleIndex /\ IdleStore

DownloadedFiles == [i \in 1..Len(downloads) |->
                       FileEntry(downloads[i].name, downloads[i].content)]
Reverse(q) == [i \in 1..Len(q) |-> q[Len(q) + 1 - i]]
\* The user moves the downloaded files into the empty archive folder, or into a
\* new subfolder of it; the folder lists them in either order.
SaveDownloads ==
    /\ downloads # <<>> /\ disk = <<>>
    /\ \E nested \in BOOLEAN, swapped \in BOOLEAN :
           LET files == IF swapped THEN Reverse(DownloadedFiles) ELSE DownloadedFiles
           IN  disk' = IF nested THEN <<DirectoryEntry(<<"s","u","b">>, files)>>
                       ELSE files
    /\ UNCHANGED <<callVars, indexVars, storeVars, scriptVars, pageVars>>

LoadRoundTripIndex == HandleIndexFileSelectionFrom({RoundTripIndexFile})

NextRoundTrip ==
    RunDownloadFlow \/ SaveDownloads \/ LoadRoundTripIndex \/ PickArchiveFolder

SpecRoundTrip == InitRoundTrip /\ [][NextRoundTrip]_vars

\* C1, as stated: when the archive folder holds exactly the two files of one
\* completed run on the page of generation X and the page has scanned it, the
\* only key of byId is X, with one media file and the sidecar's content under
\* it, and every index record with id X is shown offline: absent from the
\* harvest list, badged Offline in the gallery.
C1_Claimed_RoundTrip ==
    (disk # <<>> /\ archiveData = scanArchiveDirectory(disk)) =>
        LET X == getGenerationId(pagePath.s).s
            byId == archiveData.byId
        IN  /\ DOMAIN byId = {X}
            /\ Len(byId[X].files) = 1
            /\ byId[X].meta = MetaObject(pagePath.s, pageMedia, pagePrompt.s, JStr(X))
            /\ \A i \in DOMAIN normalizedIndex :
                   normalizedIndex[i].id.s = X =>
                       IF page = "harvest"
                       THEN \A k \in DOMAIN listing.items :
                                listing.items[k].id # normalizedIndex[i].id
                       ELSE listing.items[i].badge = "Offline"

(***************************************************************************)
(* Specification SpecArchive: a gallery or harvest page, an archive folder *)
(* on disk and the index files the user can choose.  The user loads index  *)
(* files, connects the folder and opens missing items, in any order and    *)
(* any number of times.                                                    *)
(***************************************************************************)
File_a_media == FileEntry(<<"g","e","n","_","a","-","-","c","a","t",".","m","p","4">>, MediaBytes)
File_a_meta ==
    FileEntry(<<"g","e","n","_","a",".","m","e","t","a",".","j","s","o","n">>, JsonText(JObj(<<Field(K_Prompt, JStr(<<"a"," ","d","o","g">>))>>)))
File_b_meta == FileEntry(<<"g","e","n","_","b",".","M","E","T","A",".","j","s","o","n">>, JsonText(JObj(<<>>)))
File_b_bad == FileEntry(<<"g","e","n","_","b",".","M","E","T","A",".","j","s","o","n">>, BadText)
File_c_media == FileEntry(<<"G","E","N","_","c","1",".","W","E","B","P">>, MediaBytes)
File_d_text == FileEntry(<<"g","e","n","_","d",".","t","x","t">>, MediaBytes)
File_notes == FileEntry(<<"n","o","t","e","s",".","p","n","g">>, MediaBytes)

Archives ==
    { <<>>,
      <<File_a_media, File_a_meta>>,
      <<File_b_meta>>,
      <<File_b_bad, File_a_media, File_notes>>,
      <<File_a_meta, DirectoryEntry(<<"s","u","b">>, <<File_c_media, File_a_media>>)>>,
      <<File_d_text, File_c_media, File_b_meta>> }

IndexFiles ==
    { FileEntry(<<"a">>, JsonText(JArr(<< JStr(<<"g","e","n","_","a">>),
                                         JObj(<<Field(K_id, JStr(<<"g","e","n","_","b">>)),
                                                Field(K_prompt, JStr(S_cat))>>),
                                         JStr(<<"h","t","t","p","s",":","/","/","x","/","G","E","N","_","c","1">>) >>))),
      FileEntry(<<"b">>, JsonText(JObj(<<Field(K_items,
                                               JArr(<<JStr(<<"g","e","n","_","b">>), Null>>))>>))),
      FileEntry(<<"c">>, JsonText(JArr(<<>>))),
      FileEntry(<<"d">>, JsonText(JObj(<<>>))),
      FileEntry(<<"e">>, BadText),
      FileEntry(<<"f">>, BlankText) }

InitArchive ==
    /\ disk \in Archives
    /\ InitPage
    /\ IdleCalls /\ IdleIndex /\ IdleStore /\ IdleScript

HandleIndexFileSelection == HandleIndexFileSelectionFrom(IndexFiles)

NextArchive ==
    HandleIndexFileSelection \/ PickArchiveFolder \/ OpenMissing \/ ApplyOfflinePreview

SpecArchive == InitArchive /\ [][NextArchive]_vars

\* The records of the loaded index that the three places treat as missing: the
\* ids the harvest list shows, the ids "open missing" would open for some
\* limit, and the number the gallery's statistics line counts.
ListedIds ==
    IF page = "harvest" /\ listing # Unset
    THEN {listing.items[k].id.s : k \in 1..Len(listing.items)} ELSE {}

SelectedIds ==
    IF page = "harvest"
    THEN UNION { {r.opened[k].id.s : k \in 1..Len(r.opened)} :
                    r \in {openMissing(normalizedIndex, archiveData, limit, auto, progress) :
                              limit \in Limits, auto \in BOOLEAN} }
    ELSE {}

RecordsWhere(Test(_)) == {i \in 1..Len(normalizedIndex) : Test(normalizedIndex[i])}

\* C10 as stated: a record whose id is a key of the scan's byId map is not
\* listed by renderHarvestList, not selected by openMissing and not counted as
\* missing by formatStats.
C10_Claimed_KeyOfByIdIsNotMissing ==
    LET IsKey(item) == item.id.s \in DOMAIN archiveData.byId
    IN  /\ \A id \in ListedIds \cup SelectedIds : id \notin DOMAIN archiveData.byId
        /\ (page = "gallery" /\ summary # Unset /\ summary.t = "stats")
               => summary.missing
                      <= Len(normalizedIndex) - Cardinality(RecordsWhere(IsKey))

\* C10 amended: a record whose id is a key of the scan's byId map with at least
\* one media file is not listed by renderHarvestList, not selected by
\* openMissing and not counted as missing by formatStats.
C10_KeyWithMediaFileIsNotMissing ==
    LET HasFile(item) == /\ item.id.s \in DOMAIN archiveData.byId
                         /\ Len(archiveData.byId[item.id.s].files) > 0
    IN  /\ \A id \in ListedIds \cup SelectedIds :
               ~(id \in DOMAIN archiveData.byId /\ Len(archiveData.byId[id].files) > 0)
        /\ (page = "gallery" /\ summary # Unset /\ summary.t = "stats")
               => summary.missing
                      <= Len(normalizedIndex) - Cardinality(RecordsWhere(HasFile))

\* C10 witness: on the harvest page the index holds a record with an archived
\* media file, the list shows other records as missing, and "open missing" has
\* opened tabs while this index and this scan were in place.
C10_Witness ==
    /\ page = "harvest"
    /\ \E i \in 1..Len(normalizedIndex) :
           /\ normalizedIndex[i].id.s \in DOMAIN archiveData.byId
           /\ Len(archiveData.byId[normalizedIndex[i].id.s].files) > 0
           /\ normalizedIndex[i].id.s \notin ListedIds
    /\ ListedIds # {}
    /\ opened # <<>>
    /\ {opened[k].id.s : k \in 1..Len(opened)} \subseteq SelectedIds

\* The offline predicate of the description, written once: byId has an entry
\* for the record's id and that entry holds at least one media file.
IsOffline(item) ==
    /\ item.id.s \in DOMAIN archiveData.byId
    /\ archiveData.byId[item.id.s].files # <<>>

MissingRecords == SelectSeq(normalizedIndex, LAMBDA item : ~IsOffline(item))

IdsOf(records) == [k \in 1..Len(records) |-> records[k].id]

\* C11: every place that shows or uses the offline state agrees with the one
\* predicate.  On the gallery there is one card per record, its badge reads
\* "Offline" and its "View offline" button is enabled exactly for offline
\* records, and the statistics count the offline and the missing records, which
\* sum to the number of records.  On the harvest page the list shows exactly the
\* missing records in index order with their count, and "open missing" selects
\* exactly the missing records, cut to the limit when the limit is positive.
C11_OneOfflinePredicateEverywhere ==
    /\ (page = "gallery" /\ listing # Unset) =>
           /\ Len(listing.items) = Len(normalizedIndex)
           /\ \A i \in 1..Len(normalizedIndex) :
                  /\ listing.items[i].id = normalizedIndex[i].id
                  /\ (listing.items[i].badge = "Offline") <=> IsOffline(normalizedIndex[i])
                  /\ (listing.items[i].badge = "Missing") <=> ~IsOffline(normalizedIndex[i])
                  /\ listing.items[i].offlineDisabled <=> ~IsOffline(normalizedIndex[i])
           /\ summary.t = "stats"
           /\ summary.total = Len(normalizedIndex)
           /\ summary.missing = Len(MissingRecords)
           /\ summary.offline + summary.missing = Len(normalizedIndex)
    /\ (page = "harvest" /\ listing # Unset) =>
           /\ IdsOf(listing.items) = IdsOf(MissingRecords)
           /\ normalizedIndex # <<>> =>
                  (summary.t = "pending" /\ summary.missing = Len(MissingRecords)
                   /\ summary.total = Len(normalizedIndex))
    /\ page = "harvest" =>
           \A limit \in Limits, auto \in BOOLEAN :
               IdsOf(openMissing(normalizedIndex, archiveData, limit, auto, progress).opened)
                   = IdsOf(IF limit > 0 THEN SubSeq(MissingRecords, 1,
                                                    IF limit < Len(MissingRecords)
                                                    THEN limit ELSE Len(MissingRecords))
                           ELSE MissingRecords)

\* C11 witness: the gallery shows an offline record, and a record that is
\* missing although the scan has an entry for its id (a sidecar without media).
C11_Witness ==
    /\ page = "gallery" /\ listing # Unset
    /\ \E i, j \in 1..Len(normalizedIndex) :
           /\ IsOffline(normalizedIndex[i]) /\ listing.items[i].badge = "Offline"
           /\ normalizedIndex[j].id.s \in DOMAIN archiveData.byId
           /\ listing.items[j].badge = "Missing" /\ listing.items[j].offlineDisabled
    /\ summary.offline > 0 /\ summary.missing > 0

(***************************************************************************)
(* Specification SpecPrompt: resolvePrompt is called once on a record and  *)
(* a sidecar drawn from the pools below.  The records have the shape       *)
(* normalizeIndexEntry gives them, with the prompt and the original        *)
(* payload chosen freely; the sidecar is whatever JSON.parse can return.   *)
(***************************************************************************)
S_dog == <<" ","a"," ","d","o","g">>
S_raw == <<"r","a","w"," ","t","e","x","t"," "," ">>

PromptEntries ==
    { IndexRecord(JStr(S_gen_a), JStr(S_url_a), Null, prompt, original) :
          prompt \in {Undefined, JStr(<<" ">>), JStr(S_cat)},
          original \in {JStr(S_gen_a), JObj(<<>>),
                        JObj(<<Field(K_prompt, JStr(S_raw))>>),
                        JObj(<<Field(K_prompt, JStr(<<"\t", " ">>))>>),
                        JObj(<<Field(K_prompt, JNum(7))>>)} }
    \cup {Null}

PromptMetas ==
    { Undefined, Null, JObj(<<>>), JStr(S_dog), JArr(<<JStr(S_dog)>>),
      JObj(<<Field(K_Prompt, JStr(S_dog))>>),
      JObj(<<Field(K_Prompt, JStr(<<" ", "\n">>))>>),
      JObj(<<Field(K_Prompt, JStr(<<>>))>>),
      JObj(<<Field(K_Prompt, JNum(7))>>),
      JObj(<<Field(K_prompt, JStr(S_dog))>>) }

InitPrompt ==
    /\ input \in [entry : PromptEntries, meta : PromptMetas]
    /\ output = Unset
    /\ IdleId /\ IdleMedia /\ IdleRuns /\ IdleFlows /\ IdleIndex /\ IdleStore
    /\ IdleRest

ResolvePrompt ==
    /\ output = Unset
    /\ output' = JStr(resolvePrompt(input.entry, input.meta))
    /\ UNCHANGED <<input, notPureVars>>

SpecPrompt == InitPrompt /\ [][ResolvePrompt]_vars

\* A value is a prompt when it is a string with a character that is not
\* white space.
IsPromptText(v) == v.t = "string" /\ \E i \in 1..Len(v.s) : ~IsSpace(v.s[i])

SidecarPrompt == Prop(input.meta, K_Prompt)
RecordPrompt == IF input.entry.t = "record" THEN input.entry.prompt ELSE Undefined
PayloadPrompt ==
    IF input.entry.t = "record" THEN Prop(input.entry.original, K_prompt) ELSE Undefined

\* C12: resolvePrompt returns, trimmed, the sidecar's Prompt whenever the
\* sidecar has one; else the record's own prompt; else the prompt of the
\* record's original payload; else the empty string.  With both a sidecar
\* prompt and a record prompt present the sidecar prompt is returned.
C12_ResolvePromptPriority ==
    output # Unset =>
        /\ output.t = "string"
        /\ IsPromptText(SidecarPrompt) => output.s = trim(SidecarPrompt.s)
        /\ (~IsPromptText(SidecarPrompt) /\ IsPromptText(RecordPrompt))
               => output.s = trim(RecordPrompt.s)
        /\ (~IsPromptText(SidecarPrompt) /\ ~IsPromptText(RecordPrompt)
            /\ IsPromptText(PayloadPrompt))
               => output.s = trim(PayloadPrompt.s)
        /\ (~IsPromptText(SidecarPrompt) /\ ~IsPromptText(RecordPrompt)
            /\ ~IsPromptText(PayloadPrompt))
               => output.s = <<>>

\* C12 witness: sidecar, record and payload each have a prompt, all different,
\* and the call returned the sidecar's.
C12_Witness ==
    /\ output # Unset
    /\ IsPromptText(SidecarPrompt) /\ IsPromptText(RecordPrompt)
    /\ IsPromptText(PayloadPrompt)
    /\ trim(SidecarPrompt.s) # trim(RecordPrompt.s)
    /\ trim(RecordPrompt.s) # trim(PayloadPrompt.s)
    /\ output.s = trim(SidecarPrompt.s)

(***************************************************************************)
(* Specification SpecScan: scanArchiveDirectory is called once on a folder *)
(* of up to MaxScanEntries entries drawn from the pool below: sidecars     *)
(* that parse, that do not parse and that cannot be read, media files,     *)
(* and subfolders.                                                         *)
(***************************************************************************)
MaxScanEntries == 3

File_a_unreadable == FileEntry(<<"g","e","n","_","a",".","M","E","T","A",".","J","S","O","N">>, Unreadable)
File_a_blank == FileEntry(<<"g","e","n","_","a",".","m","e","t","a",".","j","s","o","n">>, BlankText)
File_b_media == FileEntry(<<"c","l","i","p"," ","g","e","n","_","b",".","M","O","V">>, MediaBytes)
File_notes_bad == FileEntry(<<"n","o","t","e","s",".","m","e","t","a",".","j","s","o","n">>, BadText)
File_b_null ==
    FileEntry(<<"g","e","n","_","b",".","m","e","t","a",".","j","s","o","n">>, JsonText(Null))
File_a_cat_meta ==
    FileEntry(<<"g","e","n","_","a","-","-","c","a","t",".","m","e","t","a",".","j","s","o","n">>, JsonText(JObj(<<Field(K_Prompt, JStr(S_cat))>>)))

ScanEntryPool ==
    { File_a_media, File_a_meta, File_a_cat_meta, File_a_unreadable, File_a_blank,
      File_b_bad, File_b_media, File_b_null, File_d_text, File_notes_bad,
      DirectoryEntry(<<"s","u","b">>, <<File_b_bad, File_a_media>>) }

\* the folders: no two entries of a folder have the same name
ScanDirectories ==
    { d \in SeqsUpTo(ScanEntryPool, MaxScanEntries) :
          \A i, j \in 1..Len(d) : d[i].name = d[j].name => i = j }

InitScan ==
    /\ input \in ScanDirectories
    /\ output = Unset
    /\ IdleId /\ IdleMedia /\ IdleRuns /\ IdleFlows /\ IdleIndex /\ IdleStore
    /\ IdleRest

ScanArchiveDirectory ==
    /\ output = Unset
    /\ output' = scanArchiveDirectory(input)
    /\ UNCHANGED <<input, notPureVars>>

\* The folder is changed and scanned again, as a second connect does.
ScanChangedDirectory ==
    /\ output # Unset
    /\ \E d \in ScanDirectories :
           /\ Len(d) <= 1
           /\ input' = d
           /\ output' = scanArchiveDirectory(d)
    /\ UNCHANGED notPureVars

NextScan == ScanArchiveDirectory \/ ScanChangedDirectory

SpecScan == InitScan /\ [][NextScan]_vars

\* A sidecar of an id that cannot be read, or whose text is not JSON.
IsBadSidecar(file) ==
    /\ isMetaFile(file.name)
    /\ extractIdFromName(file.name) # Null
    /\ ~(file.content.t = "text" /\ file.content.form = "json")

RemoveAt(q, k) == SubSeq(q, 1, k - 1) \o SubSeq(q, k + 1, Len(q))

\* C13: a sidecar that cannot be read or parsed does not abort the scan.  For
\* a bad sidecar at any place k of the traversal: right after it the entry of
\* its id carries the message as metaError, and that one message was appended
\* to errors; and the finished scan differs from the scan of the folder without
\* that sidecar by exactly one message in errors and, at most, by an entry for
\* its id: every files list, the media count and the meta count are the same,
\* so every file after the bad sidecar was still visited.
C13_BadSidecarNeverAbortsScan ==
    output # Unset =>
        LET walk == walkDirectory(input, <<>>)
        IN  \A k \in 1..Len(walk) :
                IsBadSidecar(walk[k]) =>
                    LET id == extractIdFromName(walk[k].name).s
                        upTo == ScanFiles(SubSeq(walk, 1, k - 1), EmptyArchive)
                        after == ScanFiles(SubSeq(walk, 1, k), EmptyArchive)
                        without == ScanFiles(RemoveAt(walk, k), EmptyArchive)
                    IN  /\ id \in DOMAIN after.byId
                        /\ after.byId[id].metaError # Undefined
                        /\ Len(after.errors) = Len(upTo.errors) + 1
                        /\ after.errors[Len(after.errors)] = after.byId[id].metaError
                        /\ SubSeq(after.errors, 1, Len(upTo.errors)) = upTo.errors
                        /\ Len(output.errors) = Len(without.errors) + 1
                        /\ DOMAIN output.byId = DOMAIN without.byId \cup {id}
                        /\ \A j \in DOMAIN without.byId :
                               output.byId[j].files = without.byId[j].files
                        /\ id \notin DOMAIN without.byId => output.byId[id].files = <<>>
                        /\ output.mediaCount = without.mediaCount
                        /\ output.metaCount = without.metaCount

\* C13 witness: a bad sidecar came first in the traversal, media files of its
\* own id and of another id came after it, and the scan has them all.
C13_Witness ==
    /\ output # Unset
    /\ LET walk == walkDirectory(input, <<>>)
       IN  /\ Len(walk) >= 3
           /\ IsBadSidecar(walk[1])
           /\ \E i, j \in 2..Len(walk) :
                  /\ isMediaFile(walk[i].name) /\ isMediaFile(walk[j].name)
                  /\ extractIdFromName(walk[i].name) = extractIdFromName(walk[1].name)
                  /\ extractIdFromName(walk[j].name) # extractIdFromName(walk[1].name)
    /\ output.mediaCount = 2
    /\ output.errors # <<>>

(***************************************************************************)
(* waitForMedia (part_000:126-138 in the earlier revision, 433-461 in the  *)
(* later one) as a process: one step scans the document, the next is the   *)
(* poll timer firing.  An element of the document is kept as its tag name  *)
(* and the candidate that deriveMediaCandidate (deriveMediaUrl and the      *)
(* placeholder test in the earlier revision) derives from it, null when    *)
(* it derives none; the URL heuristics are candidateOf, further below.     *)
(***************************************************************************)
MEDIA_POLL_ATTEMPTS_EARLIER == 40
MEDIA_POLL_ATTEMPTS_LATER == 75
MEDIA_POLL_ATTEMPTS(rev) ==
    IF rev = "earlier" THEN MEDIA_POLL_ATTEMPTS_EARLIER ELSE MEDIA_POLL_ATTEMPTS_LATER

Element(tagName, candidate) == [tagName |-> tagName, candidate |-> candidate]

\* the first element of `elements` that passes Test, as a one-element or empty
\* sequence
FirstWhere(elements, Test(_)) ==
    LET passing == SelectSeq(elements, Test)
    IN  IF passing = <<>> THEN <<>> ELSE <<passing[1]>>

\* A plausible slip: images are never taken.
waitForMediaScanVideoOnly(rev, elements, fallback) ==
    LET videos == FirstWhere(elements, LAMBDA e : e.tagName = "VIDEO" /\ e.candidate # Null)
    IN  [found |-> IF videos # <<>> THEN videos[1].candidate ELSE Null,
         fallbackImage |-> fallback]

\* A plausible slip: the later revision takes the first acceptable element of
\* the document, whatever its tag.
waitForMediaScanDocumentOrder(rev, elements, fallback) ==
    LET any == FirstWhere(elements, LAMBDA e : e.candidate # Null)
    IN  [found |-> IF any # <<>> THEN any[1].candidate ELSE Null,
         fallbackImage |-> fallback]

\* One pass of the for loop up to its await: the candidate it returns, null
\* when it goes on to sleep, and fallbackImage as it leaves it.
waitForMediaScan(rev, elements, fallback) ==
    IF rev = "earlier"
    THEN LET any == FirstWhere(elements, LAMBDA e : e.candidate # Null)
         IN  [found |-> IF any # <<>> THEN any[1].candidate ELSE Null,
              fallbackImage |-> fallback]
    ELSE LET videos == FirstWhere(elements,
                                  LAMBDA e : e.tagName = "VIDEO" /\ e.candidate # Null)
             images == FirstWhere(elements,
                                  LAMBDA e : e.tagName = "IMG" /\ e.candidate # Null)
             held == IF fallback # Null THEN fallback
                     ELSE IF images # <<>> THEN images[1].candidate ELSE Null
         IN  IF videos # <<>>
             THEN [found |-> videos[1].candidate, fallbackImage |-> fallback]
             ELSE [found |-> held, fallbackImage |-> held]

MaxElements == 2

ElementPool ==
    { Element("VIDEO", MediaCandidate(Url_mp4, "video")), Element("VIDEO", Null),
      Element("IMG", MediaCandidate(Url_WEBP, "image")), Element("IMG", Null),
      Element("IMG", MediaCandidate(Url_relative, "image")) }

Documents == SeqsUpTo(ElementPool, MaxElements)

HasAcceptableCandidate(elements) == \E i \in 1..Len(elements) : elements[i].candidate # Null

InitMedia ==
    /\ revision \in {"earlier", "later"}
    /\ attempt = 0 /\ fallbackImage = Null
    /\ document \in Documents
    /\ pollState = "polling" /\ waited = Unset /\ scans = 0 /\ emptyScans = 0
    /\ IdleId /\ IdlePure /\ IdleRuns /\ IdleFlows /\ IdleIndex /\ IdleStore
    /\ IdleRest

\* the loop body runs: both passes over the document, without an await between
WaitForMediaScan ==
    /\ pollState = "polling"
    /\ \E r \in {waitForMediaScan(revision, document, fallbackImage)} :
           /\ fallbackImage' = r.fallbackImage
           /\ IF r.found # Null
              THEN pollState' = "found" /\ waited' = r.found
              ELSE pollState' = "sleeping" /\ waited' = waited
    /\ scans' = scans + 1
    /\ emptyScans' = emptyScans + (IF HasAcceptableCandidate(document) THEN 0 ELSE 1)
    /\ UNCHANGED <<revision, attempt, document, notMediaVars>>

\* the poll timer fires: attempt += 1, and the loop condition is tested.  The
\* page may have changed in the meantime.
WaitForMediaWake ==
    /\ pollState = "sleeping"
    /\ attempt' = attempt + 1
    /\ document' \in Documents
    /\ IF attempt + 1 < MEDIA_POLL_ATTEMPTS(revision)
       THEN pollState' = "polling" /\ waited' = waited
       ELSE pollState' = "timed-out" /\ waited' = TimedOut
    /\ UNCHANGED <<revision, fallbackImage, scans, emptyScans, notMediaVars>>

NextMedia == WaitForMediaScan \/ WaitForMediaWake

\* Timers fire and synchronous code runs to its next await.
SpecMedia == InitMedia /\ [][NextMedia]_vars /\ WF_vars(NextMedia)

\* once waitForMedia has returned or thrown, no step scans again
ReturnedStaysReturned ==
    pollState \in {"found", "timed-out"} => (scans' = scans /\ waited' = waited)

\* C14: waitForMedia terminates; it scans the document at most
\* MEDIA_POLL_ATTEMPTS times (40 in the earlier revision, 75 in the later); it
\* returns at the first scan that meets an acceptable candidate and does not
\* scan again; it throws the timeout error exactly when every scan of the
\* whole budget met none.
C14_WaitForMediaTerminates ==
    /\ <>(pollState \in {"found", "timed-out"})
    /\ [](/\ scans <= MEDIA_POLL_ATTEMPTS(revision)
          /\ pollState \in {"polling", "sleeping"} =>
                 (waited = Unset /\ emptyScans = scans)
          /\ pollState = "found" =>
                 /\ waited.t = "media"
                 /\ HasAcceptableCandidate(document)
                 /\ emptyScans = scans - 1
          /\ pollState = "timed-out" =>
                 /\ waited = TimedOut
                 /\ scans = MEDIA_POLL_ATTEMPTS(revision)
                 /\ emptyScans = scans)
    /\ [][ReturnedStaysReturned]_vars

\* C14 witness: the later revision timed out after 75 scans that met nothing.
C14_Witness ==
    /\ revision = "later" /\ pollState = "timed-out"
    /\ scans = 75 /\ emptyScans = 75 /\ waited = TimedOut

CandidatesOf(elements, tagName) ==
    LET yielding == SelectSeq(elements,
                              LAMBDA e : e.tagName = tagName /\ e.candidate # Null)
    IN  [i \in DOMAIN yielding |-> yielding[i].candidate]

\* C26: in the later revision, the tick in which waitForMedia returns gives a
\* video whenever some VIDEO element of the document yields a candidate,
\* wherever the images stand; it gives an image only when no VIDEO element
\* yields one in that tick, and then the candidate of the first IMG element
\* in traversal order that yields one.
C26_VideoPreferredWithinATick ==
    (revision = "later" /\ pollState = "found") =>
        LET videos == CandidatesOf(document, "VIDEO")
            images == CandidatesOf(document, "IMG")
        IN  IF videos # <<>>
            THEN waited = videos[1] /\ waited.kind = "video"
            ELSE images # <<>> /\ waited = images[1] /\ waited.kind = "image"

\* C26 witness: the later revision returned the video although an acceptable
\* image stands before it in the document.
C26_Witness ==
    /\ revision = "later" /\ pollState = "found" /\ waited.kind = "video"
    /\ Len(document) = 2
    /\ document[1].tagName = "IMG" /\ document[1].candidate # Null
    /\ document[2].tagName = "VIDEO" /\ document[2].candidate # Null

\* C26 witness of the image case: two acceptable images and no acceptable
\* video; the first image in traversal order was returned.
C26_WitnessFirstImage ==
    /\ revision = "later" /\ pollState = "found" /\ waited.kind = "image"
    /\ Len(document) = 2
    /\ document[1].tagName = "IMG" /\ document[2].tagName = "IMG"
    /\ document[1].candidate # Null /\ document[2].candidate # Null
    /\ document[1].candidate # document[2].candidate
    /\ waited = document[1].candidate

(***************************************************************************)
(* The userscript as the browser runs it (part_000:526-600, and 203-267 in *)
(* the earlier revision): every call of handleDownloadRequest is a run     *)
(* that advances from one await to the next, and other tasks (a click, a   *)
(* timer, another run) may come between.                                   *)
(***************************************************************************)
AUTO_START_DELAY == 600
REENABLE_DELAY == 1200
AUTO_CLOSE_DELAY == 1500

Timer(kind, delay, run) == [kind |-> kind, delay |-> delay, run |-> run]

\* one fetch(media.url, options) of a run and how it settled
Fetch(options, outcome) == [options |-> options, outcome |-> outcome]

Run(pc, media, fetches, triggered, error) ==
    [pc |-> pc, media |-> media, fetches |-> fetches, triggered |-> triggered,
     error |-> error]

InProgress(r) == r.pc \in {"locating", "fetching", "reading"}

Failed(r, message) == [r EXCEPT !.pc = "failed", !.error = Thrown(message)]

\* A plausible slip: the catch block leaves the button as it is.
CaughtKeepingButton(after, message) ==
    /\ runs' = after
    /\ bannerStatus' = BannerText(message)
    /\ UNCHANGED <<buttonDisabled, downloads>>

\* The catch block of handleDownloadRequest (lines 585-591); `after` is runs
\* with the failed run in it: the message goes to the banner, the button is
\* enabled again.
Caught(after, message) ==
    /\ runs' = after
    /\ bannerStatus' = BannerText(message)
    /\ buttonDisabled' = FALSE
    /\ UNCHANGED downloads

\* handleDownloadRequest up to the first await of runDownloadFlow: the button
\* is disabled, and without an id in the URL runDownloadFlow throws at once.
handleDownloadRequest ==
    IF getGenerationId(pagePath.s) = Null
    THEN Caught(Append(runs, Failed(Run("locating", Null, <<>>, <<>>, Null),
                                    "Could not determine generation id from URL.")),
                "Could not determine generation id from URL.")
    ELSE /\ runs' = Append(runs, Run("locating", Null, <<>>, <<>>, Null))
         /\ bannerStatus' = BannerText("Locating media")
         /\ buttonDisabled' = TRUE
         /\ UNCHANGED downloads

\* A plausible slip: the retry also follows a response that is not ok.
retriesAfterAnyFailure(rev, outcome, n) == rev = "later" /\ outcome # "ok" /\ n = 1

\* try { fetch(url, {mode, credentials}) } catch { fetch(url) } of the later
\* revision: the second fetch follows a rejection of the first, and only that.
\* The earlier revision has one fetch (line 217).
retries(rev, outcome, n) == rev = "later" /\ outcome = "reject" /\ n = 1

\* A plausible slip: the sidecar is triggered before the media file.
triggerDownloadsSidecarFirst(r) ==
    LET id == getGenerationId(pagePath.s)
    IN  << Download(MetaFileName(id),
                    JsonText(MetaObject(pagePath.s, r.media, pagePrompt.s, id))),
           Download(MediaFileName(id, SanitizedPrompt(pagePrompt.s),
                                  determineExtension(r.media.url, r.media.kind)),
                    MediaBytes) >>

\* lines 555 and 566: the two triggerDownload calls of run r, in order
triggerDownloads(r) ==
    LET id == getGenerationId(pagePath.s)
    IN  << Download(MediaFileName(id, SanitizedPrompt(pagePrompt.s),
                                  determineExtension(r.media.url, r.media.kind)),
                    MediaBytes),
           Download(MetaFileName(id),
                    JsonText(MetaObject(pagePath.s, r.media, pagePrompt.s, id))) >>

MaxRuns == 3

notRunVars ==
    <<idVars, pureVars, mediaVars, flowVars, indexVars, storeVars, pagePath, pageMedia,
      pagePrompt, flowResult, disk, pageVars>>

\* init(): the banner, and in auto mode the timer that starts a run
InitUserscript ==
    /\ pagePath \in {JStr(Path_a1), JStr(Path_none)}
    /\ pagePrompt = JStr(Prompt_cat)
    /\ pageMedia = Unset /\ flowResult = Unset
    /\ downloads = <<>>
    /\ autoMode \in BOOLEAN
    /\ bannerStatus = IF autoMode THEN BannerText("Auto mode detected")
                      ELSE BannerText("Sora Saver ready")
    /\ timers = IF autoMode THEN {Timer("start", AUTO_START_DELAY, 0)} ELSE {}
    /\ buttonDisabled = FALSE /\ runs = <<>> /\ closed = FALSE
    /\ revision \in {"earlier", "later"}
    /\ attempt = 0 /\ fallbackImage = Null /\ document = <<>>
    /\ pollState = "idle" /\ waited = Unset /\ scans = 0 /\ emptyScans = 0
    /\ IdleId /\ IdlePure /\ IdleFlows /\ IdleIndex /\ IdleStore
    /\ disk = <<>> /\ IdlePage

\* The user clicks the banner button; a disabled button fires no click.
ClickButton ==
    /\ ~closed /\ ~buttonDisabled /\ Len(runs) < MaxRuns
    /\ handleDownloadRequest
    /\ UNCHANGED <<autoMode, timers, closed, notRunVars>>

\* setTimeout(() => handleDownloadRequest(), 600) of init() comes due.
AutoStartTimerFires ==
    /\ ~closed /\ Len(runs) < MaxRuns
    /\ \E t \in timers :
           /\ t.kind = "start"
           /\ timers' = timers \ {t}
    /\ handleDownloadRequest
    /\ UNCHANGED <<autoMode, closed, notRunVars>>

\* await waitForMedia() settles for run i: the timeout error, or the candidate,
\* and then the first fetch is issued (lines 530-545).
MediaLocated ==
    /\ ~closed
    /\ \E i \in 1..Len(runs) :
           /\ runs[i].pc = "locating"
           /\ \E found \in {MediaCandidate(Url_mp4, "video"), TimedOut} :
                  IF found.t = "error"
                  THEN /\ Caught([runs EXCEPT ![i] = Failed(@, found.message)],
                                 found.message)
                       /\ UNCHANGED timers
                  ELSE /\ runs' = [runs EXCEPT ![i] =
                                      [@ EXCEPT !.pc = "fetching", !.media = found,
                                                !.fetches = <<Fetch(IF revision = "later"
                                                                     THEN "cors, omit"
                                                                     ELSE "include",
                                                                     "pending")>>]]
                       /\ bannerStatus' = BannerText("Downloading media")
                       /\ UNCHANGED <<buttonDisabled, timers, downloads>>
    /\ UNCHANGED <<autoMode, closed, notRunVars>>

\* The pending fetch of run i settles (lines 541-552).
FetchSettles ==
    /\ ~closed
    /\ \E i \in 1..Len(runs), outcome \in FetchOutcomes :
           /\ runs[i].pc = "fetching"
           /\ LET n == Len(runs[i].fetches)
                  r == [runs[i] EXCEPT !.fetches[n].outcome = outcome]
              IN  IF retries(revision, outcome, n)
                  THEN /\ runs' = [runs EXCEPT ![i] =
                                      [r EXCEPT !.fetches = Append(@, Fetch("default",
                                                                            "pending"))]]
                       /\ UNCHANGED <<bannerStatus, buttonDisabled, timers, downloads>>
                  ELSE IF outcome = "reject"
                  THEN /\ Caught([runs EXCEPT ![i] = Failed(r, "Failed to fetch")],
                                 "Failed to fetch")
                       /\ UNCHANGED timers
                  ELSE IF outcome = "http_error"
                  THEN /\ Caught([runs EXCEPT ![i] =
                                     Failed(r, "Failed to download media (status).")],
                                 "Failed to download media (status).")
                       /\ UNCHANGED timers
                  ELSE /\ runs' = [runs EXCEPT ![i] = [r EXCEPT !.pc = "reading"]]
                       /\ UNCHANGED <<bannerStatus, buttonDisabled, timers, downloads>>
    /\ UNCHANGED <<autoMode, closed, notRunVars>>

\* await mediaResponse.blob() settles for run i; on success both downloads are
\* triggered and handleDownloadRequest goes on after its await (lines 553-584).
BodyArrives ==
    /\ ~closed
    /\ \E i \in 1..Len(runs), bodyOk \in BOOLEAN :
           /\ runs[i].pc = "reading"
           /\ IF ~bodyOk
              THEN /\ Caught([runs EXCEPT ![i] = Failed(@, "Failed to fetch")],
                             "Failed to fetch")
                   /\ UNCHANGED timers
              ELSE LET files == triggerDownloads(runs[i])
                   IN  /\ downloads' = downloads \o files
                       /\ runs' = [runs EXCEPT ![i] =
                                      [@ EXCEPT !.pc = "done", !.triggered = files]]
                       /\ IF autoMode
                          THEN /\ bannerStatus' = BannerText("Auto mode: closing tab")
                               /\ timers' = timers \cup {Timer("close", AUTO_CLOSE_DELAY, i)}
                          ELSE /\ bannerStatus' = BannerText("Downloads complete")
                               /\ timers' = timers \cup {Timer("enable", REENABLE_DELAY, i)}
                       /\ UNCHANGED buttonDisabled
    /\ UNCHANGED <<autoMode, closed, notRunVars>>

\* The 1200 ms timer after a successful run outside auto mode (lines 579-582).
ReenableTimerFires ==
    /\ ~closed
    /\ \E t \in timers :
           /\ t.kind = "enable"
           /\ timers' = timers \ {t}
    /\ buttonDisabled' = FALSE
    /\ bannerStatus' = BannerText("Ready for another download")
    /\ UNCHANGED <<autoMode, runs, closed, downloads, notRunVars>>

\* The AUTO_CLOSE_DELAY timer (line 577).  It is set at least 1500 ms after
\* init, so the 600 ms timer of init has run before it.
CloseTimerFires ==
    /\ ~closed
    /\ \A t \in timers : t.kind # "start"
    /\ \E t \in timers :
           /\ t.kind = "close"
           /\ timers' = timers \ {t}
    /\ closed' = TRUE
    /\ UNCHANGED <<autoMode, buttonDisabled, runs, bannerStatus, downloads, notRunVars>>

NextUserscript ==
    \/ ClickButton
    \/ AutoStartTimerFires
    \/ MediaLocated
    \/ FetchSettles
    \/ BodyArrives
    \/ ReenableTimerFires
    \/ CloseTimerFires

SpecUserscript == InitUserscript /\ [][NextUserscript]_vars

RunsWhere(Test(_)) == {i \in 1..Len(runs) : Test(runs[i])}

\* C16: a run triggers both downloads or none.  Every finished run triggered
\* the media file and then its sidecar, once each and with nothing between;
\* a run that failed, or has not finished, triggered nothing; so the downloads
\* of the page are pairs of a media file followed by its sidecar, one pair per
\* finished run.
C16_BothDownloadsOrNone ==
    /\ \A i \in 1..Len(runs) :
           /\ runs[i].pc = "done" =>
                  /\ Len(runs[i].triggered) = 2
                  /\ runs[i].triggered[1].content = MediaBytes
                  /\ ~isMetaFile(runs[i].triggered[1].name)
                  /\ isMetaFile(runs[i].triggered[2].name)
                  /\ runs[i].triggered[2].content.t = "text"
           /\ runs[i].pc # "done" => runs[i].triggered = <<>>
           /\ runs[i].pc = "failed" <=> runs[i].error # Null
    /\ Len(downloads) = 2 * Cardinality(RunsWhere(LAMBDA r : r.pc = "done"))
    /\ \A k \in 1..Len(downloads) :
           IF k % 2 = 1
           THEN downloads[k].content = MediaBytes /\ ~isMetaFile(downloads[k].name)
           ELSE /\ isMetaFile(downloads[k].name)
                /\ \E i \in 1..Len(runs) :
                       runs[i].triggered = <<downloads[k - 1], downloads[k]>>

\* C16 witness: one run failed on a response that was not ok, a later run
\* finished, and the page has exactly one media file and one sidecar.
C16_Witness ==
    /\ \E i, j \in 1..Len(runs) :
           /\ i < j
           /\ runs[i].pc = "failed" /\ runs[i].fetches # <<>>
           /\ runs[j].pc = "done"
    /\ Len(downloads) = 2

\* C17: a run issues at most two media fetches; the first carries the explicit
\* mode and credentials options; the second, without options, is issued
\* exactly when the first rejected; a response that is not ok, from either
\* fetch, fails the run with no further fetch; a rejection of the second fetch
\* fails the run.
C17_AtMostOneRetryAfterRejection ==
    revision = "later" => \A i \in 1..Len(runs) :
        LET f == runs[i].fetches
            n == Len(f)
        IN  /\ n <= 2
            /\ n >= 1 => f[1].options = "cors, omit"
            /\ n = 2 <=> (n >= 1 /\ f[1].outcome = "reject")
            /\ n = 2 => f[2].options = "default"
            /\ \A k \in 1..n :
                   /\ f[k].outcome = "http_error" => (k = n /\ runs[i].pc = "failed")
                   /\ f[k].outcome = "pending" => (k = n /\ runs[i].pc = "fetching")
            /\ (n = 2 /\ f[2].outcome = "reject") => runs[i].pc = "failed"
            /\ runs[i].pc \in {"reading", "done"} => (n >= 1 /\ f[n].outcome = "ok")

\* C17 witness: a run whose first fetch rejected and whose second fetch got a
\* response that was not ok, and a run whose two fetches both rejected.
C17_Witness ==
    \E i, j \in 1..Len(runs) :
        /\ revision = "later"
        /\ Len(runs[i].fetches) = 2 /\ runs[i].fetches[2].outcome = "http_error"
        /\ runs[i].pc = "failed"
        /\ Len(runs[j].fetches) = 2 /\ runs[j].fetches[2].outcome = "reject"
        /\ runs[j].pc = "failed"

\* the runs that fail in a step
FailingNow == {i \in 1..Len(runs') : runs'[i].pc = "failed"
                                      /\ (i > Len(runs) \/ runs[i].pc # "failed")}

\* A step in which a run fails shows that run's error message in the banner,
\* leaves the button enabled and sets no timer; a step that sets the close
\* timer is taken in auto mode by a run that has just triggered both downloads.
FailureIsShownAndRetryIsOpen ==
    /\ \A i \in FailingNow :
           /\ bannerStatus' = BannerText(runs'[i].error.message)
           /\ buttonDisabled' = FALSE
           /\ timers' \subseteq timers
           /\ closed' = closed
           /\ downloads' = downloads
    /\ \A t \in timers' \ timers :
           t.kind = "close" =>
               /\ autoMode
               /\ runs[t.run].pc # "done" /\ runs'[t.run].pc = "done"
               /\ downloads' = downloads \o runs'[t.run].triggered
               /\ Len(runs'[t.run].triggered) = 2

\* C18: whenever a run fails, for whatever reason, handleDownloadRequest shows
\* the error message as the banner status, leaves the button enabled and
\* schedules no tab close, in auto mode too; the tab close is scheduled only in
\* auto mode and only after both downloads were triggered.
C18_FailureShownButtonEnabledNoClose ==
    /\ [][FailureIsShownAndRetryIsOpen]_vars
    /\ [](/\ \A t \in timers :
                 t.kind = "close" => (autoMode /\ runs[t.run].pc = "done")
          /\ closed => (autoMode /\ \E i \in 1..Len(runs) : runs[i].pc = "done"))

\* C18 witness: in auto mode the run started by the timer has failed; the
\* banner shows its message, the button is enabled, no close is scheduled.
C18_Witness ==
    /\ autoMode /\ Len(runs) = 1 /\ runs[1].pc = "failed"
    /\ runs[1].fetches # <<>>
    /\ bannerStatus = BannerText(runs[1].error.message)
    /\ ~buttonDisabled /\ timers = {} /\ ~closed

\* C20 as stated: at most one download run is in progress in a page at any
\* time.
C20_Claimed_AtMostOneRunInProgress ==
    Cardinality(RunsWhere(InProgress)) <= 1

(***************************************************************************)
(* Specification SpecSanitize: sanitizeForFilename is called once on a     *)
(* string: every string of up to MaxChars characters over the alphabet     *)
(* below, and the long prompts of the pool.                                *)
(***************************************************************************)
MaxChars == 3

SanitizeAlphabet ==
    {"a", "Z", "7", " ", "\t", "_", "-", ".", "!", "/", "U+00E9", "U+FB01", "U+0301"}

SanitizeInputs ==
    SeqsUpTo(SanitizeAlphabet, MaxChars)
        \cup {Prompt_cat, Prompt_accents, Prompt_marks, Prompt_long}
        \cup {Prompt_long \o tail : tail \in SeqsUpTo(SanitizeAlphabet, 1)}

InitSanitize ==
    /\ input \in SanitizeInputs
    /\ output = Unset
    /\ IdleId /\ IdleMedia /\ IdleRuns /\ IdleFlows /\ IdleIndex /\ IdleStore
    /\ IdleRest

SanitizeForFilename ==
    /\ output = Unset
    /\ output' = JStr(sanitizeForFilename(input))
    /\ UNCHANGED <<input, notPureVars>>

SpecSanitize == InitSanitize /\ [][SanitizeForFilename]_vars

\* C19: for every string, sanitizeForFilename returns a string of at most 64
\* characters, each an ASCII letter, a digit, a hyphen, an underscore or a
\* dot, so with no white space anywhere; the empty string gives the empty
\* string; and the function applied to its own output returns that output.
C19_SanitizedNameIsShortCleanAndStable ==
    output # Unset =>
        /\ output.t = "string"
        /\ Len(output.s) <= 64
        /\ \A i \in 1..Len(output.s) :
               \/ output.s[i] \in UpperSet \cup LowerSet \cup Digits
               \/ output.s[i] \in {"-", "_", "."}
        /\ input = <<>> => output.s = <<>>
        /\ sanitizeForFilename(output.s) = output.s

\* C19 witness: an input of more than 64 characters with accents, white space
\* and other characters was cut to exactly 64.
C19_Witness ==
    /\ output # Unset
    /\ Len(input) > 64 /\ Len(output.s) = 64
    /\ \E i, j, k \in 1..Len(input) :
           /\ IsSpace(input[i])
           /\ input[j] \notin UpperSet \cup LowerSet \cup Digits \cup {"-", "_", ".", " "}
           /\ Decompose(input[k]) # <<input[k]>>

(***************************************************************************)
(* Specification SpecPageFlows: a gallery or harvest page from init() on,  *)
(* with every asynchronous function advancing one await at a time.  The    *)
(* listeners are registered at the top of init() (part_002:368-378,        *)
(* harvest.js:238-241), so the user can click and choose files while       *)
(* init() and earlier calls are still waiting.                             *)
(***************************************************************************)
MaxFlows == 2

\* One call of an asynchronous function of the page.  directory, persistHandle
\* and sourceLabel are the arguments of its connectArchiveDirectory call;
\* granted is what its last ensureReadPermission returned and calls the
\* methods of the handle that call invoked, with their answers; items, i,
\* delay and appendAuto are the locals of
\* openMissing (items also holds what an index load resolved to).  `current`
\* is history: this call made the latest assignment to archiveData (a connect)
\* or the latest assignment to normalizedIndex by a user's load; `during` is
\* history: the openMissing calls that were waiting when this one was started.
Flow(kind, pc) ==
    [kind |-> kind, pc |-> pc, directory |-> Null, persistHandle |-> FALSE,
     sourceLabel |-> "-", file |-> NoFile, items |-> <<>>, i |-> 0, delay |-> 0,
     appendAuto |-> FALSE, granted |-> FALSE, calls |-> <<>>, outcome |-> "pending",
     current |-> FALSE, during |-> {}]

\* what the two folders of the model hold: the archive folder holds `disk`
OtherFolder == <<File_b_meta, File_c_media>>
FolderEntries(directory) == IF directory = DirHandle("archive") THEN disk ELSE OtherFolder

Done(f, outcome) == [f EXCEPT !.pc = "done", !.outcome = outcome]

\* the variables no step of a page flow touches
notFlowVars ==
    <<idVars, pureVars, mediaVars, runVars, indexVars, lastSaved, call, scriptVars, disk,
      page>>

\* loadDefaultIndex (data.js:189-203): null when the fetch rejects, the response
\* is not ok, the body is no JSON or normalizeIndexData throws
loadDefaultIndex(response) ==
    IF ~response.ok \/ response.content.form # "json" THEN Null
    ELSE LET result == normalizeIndexData(response.content.json)
         IN  IF result.t = "error" THEN Null ELSE result

\* flows with flow i replaced by f; when f assigned archiveData or
\* normalizedIndex (f.current), the earlier assigners of its kind lose the mark
WithFlow(i, f, kinds) ==
    [k \in DOMAIN flows |->
        IF k = i THEN f
        ELSE IF f.current /\ flows[k].kind \in kinds THEN [flows[k] EXCEPT !.current = FALSE]
        ELSE flows[k]]

ConnectKinds == {"init", "pick"}

\* A native dialog (the folder picker) is open: the page takes no input.
PickerOpen == \E k \in DOMAIN flows : flows[k].pc = "picker"

\* autoConnectPreferredFolder up to its await (part_002:354-356)
autoConnectPreferredFolder(st, f) ==
    [st |-> [st EXCEPT !.archiveStatus =
                           Status("info", "Attempting to open preferred folder...")],
     flow |-> [f EXCEPT !.pc = "picker", !.directory = Null]]

\* What follows a connectArchiveDirectory that returned false, in its caller:
\* pickArchiveFolder (part_002:301-303, harvest.js:131-134),
\* restorePreviousFolder and init (part_002:322-325, 390-393), and
\* autoConnectPreferredFolder (part_002:361-364).
afterFailedConnect(st, pg, f) ==
    IF f.kind = "pick"
    THEN [st |-> IF pg = "gallery" THEN [st EXCEPT !.archiveNoticeHidden = JBool(FALSE)]
                 ELSE st,
          flow |-> Done(f, "failed")]
    ELSE IF f.sourceLabel = "previous"
    THEN autoConnectPreferredFolder(
             IF pg = "gallery" THEN [st EXCEPT !.archiveNoticeHidden = JBool(TRUE)]
             ELSE st, f)
    ELSE [st |-> st, flow |-> Done(f, "failed")]

\* connectArchiveDirectory up to its first await (part_002:328-330)
startConnect(f, directory, persistHandle, sourceLabel) ==
    [f EXCEPT !.pc = "permission", !.directory = directory,
              !.persistHandle = persistHandle, !.sourceLabel = sourceLabel]

FlowArchives == { <<File_b_bad, File_a_media, File_notes>> }

DefaultIndexResponses ==
    { [ok |-> FALSE, content |-> BadText],
      [ok |-> TRUE, content |-> JsonText(JArr(<<JStr(<<"g","e","n","_","a">>),
                                                JStr(<<"g","e","n","_","d">>)>>))] }

FlowIndexFiles ==
    { f \in IndexFiles : f.name \in {<<"a">>, <<"e">>} }

\* init() up to its first await (part_002:367-380, harvest.js:237-244)
InitPageFlows ==
    /\ page \in Pages
    /\ disk \in FlowArchives
    /\ slot \in {Undefined, DirHandle("archive")}
    /\ lastSaved = Undefined /\ call = Unset
    /\ normalizedIndex = <<>> /\ archiveData = EmptyArchive
    /\ indexStatus = Status("loading", "Loading default index...")
    /\ archiveStatus = Unset /\ listing = Unset /\ summary = Unset
    /\ progress = Unset /\ opened = <<>> /\ alerted = Unset
    /\ archiveNoticeHidden = Unset /\ objectUrlCache = {} /\ pendingPreviews = {}
    /\ flows = <<Flow("init", "index")>>
    /\ IdleId /\ IdlePure /\ IdleMedia /\ IdleRuns /\ IdleIndex /\ IdleScript

\* The user clicks "connect folder": pickArchiveFolder up to its await
ClickConnectFolder ==
    /\ ~PickerOpen /\ Len(flows) < MaxFlows
    /\ flows' = Append(flows, Flow("pick", "picker"))
    /\ UNCHANGED <<notFlowVars, slot, pageVars>>

\* The user chooses an index file: handleIndexFileSelection up to its await
ChooseIndexFile ==
    /\ ~PickerOpen /\ Len(flows) < MaxFlows
    /\ \E file \in FlowIndexFiles :
           /\ flows' = Append(flows, [Flow("load", "parse") EXCEPT !.file = file])
           /\ indexStatus' = Status("loading", file.name)
    /\ UNCHANGED <<notFlowVars, slot, normalizedIndex, archiveData, archiveStatus, listing,
                   summary, progress, opened, alerted, archiveNoticeHidden,
                   objectUrlCache, pendingPreviews>>

\* parseIndexFile settles (part_002:285-290, harvest.js:117-122)
IndexFileParsed ==
    \E i \in DOMAIN flows :
        /\ flows[i].pc = "parse"
        /\ \E result \in {parseIndexFile(flows[i].file)} :
           \E assigned \in {IF result.t = "error"
                             THEN [PageState EXCEPT
                                     !.indexStatus = Status("error", result.message)]
                             ELSE [PageState EXCEPT
                                     !.normalizedIndex = result.items,
                                     !.indexStatus =
                                         [t |-> "success", loaded |-> Len(result.items),
                                          skipped |-> result.skipped]]} :
           \E after \in {IF result.t = "error" THEN assigned
                          ELSE render(assigned, page)} :
               /\ SetPageState(after)
               /\ flows' = WithFlow(i, IF result.t = "error" THEN Done(flows[i], "failed")
                                       ELSE [Done(flows[i], "ok") EXCEPT
                                               !.items = result.items,
                                               !.current = TRUE], {"load"})
        /\ UNCHANGED <<notFlowVars, progress, opened, alerted>>

\* loadDefaultIndex settles; init goes on to restorePreviousFolder's first
\* await (part_002:381-389, 311; harvest.js:244-253, 142)
DefaultIndexArrives ==
    \E i \in DOMAIN flows, response \in DefaultIndexResponses :
        /\ flows[i].pc = "index"
        /\ \E defaultIndex \in {loadDefaultIndex(response)} :
           \E assigned \in {IF defaultIndex = Null
                             THEN [PageState EXCEPT !.indexStatus =
                                      Status("error",
                                             "Failed to load sora_gallery_index.json.")]
                             ELSE [PageState EXCEPT
                                     !.normalizedIndex = defaultIndex.items,
                                     !.indexStatus =
                                         [t |-> "success",
                                          loaded |-> Len(defaultIndex.items),
                                          skipped |-> defaultIndex.skipped]]} :
           \E after \in {IF defaultIndex = Null THEN assigned
                          ELSE render(assigned, page)} :
               /\ SetPageState(after)
               /\ flows' = WithFlow(i, [flows[i] EXCEPT !.pc = "getHandle"], {})
        /\ UNCHANGED <<notFlowVars, progress, opened, alerted>>

\* getDirectoryHandle settles in restorePreviousFolder (part_002:311-313)
StoredHandleRead ==
    \E i \in DOMAIN flows, dbOk \in BOOLEAN :
        /\ flows[i].pc = "getHandle"
        /\ LET stored == getDirectoryHandle(slot, dbOk).ret
               next == IF stored = Null THEN autoConnectPreferredFolder(PageState, flows[i])
                       ELSE [st |-> PageState,
                             flow |-> [flows[i] EXCEPT !.pc = "validate",
                                                       !.directory = stored]]
           IN  \E step \in {next} :
                   SetPageState(step.st) /\ flows' = WithFlow(i, step.flow, {})
        /\ UNCHANGED <<notFlowVars, progress, opened, alerted>>

\* validateStoredHandle settles in restorePreviousFolder (part_002:313-321); when
\* it rejects, init() rejects and nothing catches it
StoredHandleValidated ==
    \E i \in DOMAIN flows, query \in PermissionOutcomes, request \in PermissionOutcomes,
       dbOk \in BOOLEAN :
        /\ flows[i].pc = "validate"
        /\ LET out == validateStoredHandle(slot, flows[i].directory, query, request, dbOk)
               st == [PageState EXCEPT !.slot = out.slot]
               f == [flows[i] EXCEPT
                       !.granted = ensureReadPermission(flows[i].directory, query, request),
                       !.calls = permissionCalls(flows[i].directory, query, request)]
               next ==
                   IF out.ret = DbError THEN [st |-> st, flow |-> Done(f, "failed")]
                   ELSE IF out.ret = Null THEN autoConnectPreferredFolder(st, f)
                   ELSE [st |-> [st EXCEPT
                                   !.archiveStatus =
                                       Status("info", "Restoring previous archive folder..."),
                                   !.archiveNoticeHidden =
                                       IF page = "gallery" THEN JBool(FALSE) ELSE @],
                         flow |-> startConnect(f, out.ret, FALSE, "previous")]
           IN  \E step \in {next} :
                   SetPageState(step.st) /\ flows' = WithFlow(i, step.flow, {})
        /\ UNCHANGED <<notFlowVars, progress, opened, alerted>>

\* showDirectoryPicker settles: in pickArchiveFolder (part_002:296-307,
\* harvest.js:130-138) or in attemptPreferredArchiveDirectory
\* (preferredFolder.js:64-82, part_002:356-360)
PickerSettles ==
    \E i \in DOMAIN flows, picked \in Handles \cup {Null}, error \in PickerOutcomes :
        /\ flows[i].pc = "picker"
        /\ (picked = Null) = (error # "picked")
        \* one picker is shown at a time: a call made while another is open fails
        /\ picked # Null => \A k \in DOMAIN flows \ {i} : flows[k].pc # "picker"
        /\ LET f == flows[i]
               next ==
                   IF f.kind = "pick"
                   THEN IF picked # Null
                        THEN [st |-> PageState,
                              flow |-> startConnect(f, picked, TRUE, "selected")]
                        ELSE IF error = "AbortError"
                        THEN [st |-> PageState, flow |-> Done(f, "aborted")]
                        ELSE [st |-> [PageState EXCEPT !.archiveStatus = Status("info", error)],
                              flow |-> Done(f, "failed")]
                   ELSE IF picked # Null
                        THEN [st |-> PageState,
                              flow |-> [f EXCEPT !.pc = "preferredPermission",
                                                 !.directory = picked]]
                        ELSE [st |-> [PageState EXCEPT !.archiveStatus =
                                          Status("info", "Archive folder not connected.")],
                              flow |-> Done(f, "failed")]
           IN  \E step \in {next} :
                   SetPageState(step.st) /\ flows' = WithFlow(i, step.flow, {})
        /\ UNCHANGED <<notFlowVars, progress, opened, alerted>>

\* ensureReadPermission settles: in attemptPreferredArchiveDirectory
\* (preferredFolder.js:69-73, part_002:357-364) or in connectArchiveDirectory
\* (part_002:330-340, harvest.js:155-164)
PermissionSettles ==
    \E i \in DOMAIN flows, query \in PermissionOutcomes, request \in PermissionOutcomes :
        /\ flows[i].pc \in {"preferredPermission", "permission"}
        /\ query # "prompt" => request = "granted"
        /\ LET granted == ensureReadPermission(flows[i].directory, query, request)
               f == [flows[i] EXCEPT
                       !.granted = granted,
                       !.calls = permissionCalls(flows[i].directory, query, request)]
               next ==
                   IF f.pc = "preferredPermission"
                   THEN IF granted
                        THEN [st |-> PageState,
                              flow |-> startConnect(f, f.directory, TRUE, "preferred")]
                        ELSE [st |-> [PageState EXCEPT !.archiveStatus =
                                          Status("info", "Archive folder not connected.")],
                              flow |-> Done(f, "failed")]
                   ELSE IF ~granted
                   THEN afterFailedConnect(
                            [PageState EXCEPT !.archiveStatus =
                                Status("info", "Permission denied for the selected folder.")],
                            page, f)
                   ELSE [st |-> [PageState EXCEPT
                                   !.archiveStatus = Status("scanning", f.sourceLabel),
                                   !.objectUrlCache = IF page = "gallery" THEN {} ELSE @],
                         flow |-> [f EXCEPT !.pc = IF f.persistHandle THEN "save"
                                                   ELSE "scan"]]
           IN  \E step \in {next} :
                   SetPageState(step.st) /\ flows' = WithFlow(i, step.flow, {})
        /\ UNCHANGED <<notFlowVars, progress, opened, alerted>>

\* saveDirectoryHandle settles in connectArchiveDirectory (part_002:338-340, 348-351)
HandleSaved ==
    \E i \in DOMAIN flows, dbOk \in BOOLEAN :
        /\ flows[i].pc = "save"
        /\ LET saved == saveDirectoryHandle(slot, flows[i].directory, dbOk)
               next ==
                   IF saved.ret.t = "error"
                   THEN afterFailedConnect(
                            [PageState EXCEPT !.archiveStatus =
                                Status("info", saved.ret.message)], page, flows[i])
                   ELSE [st |-> [PageState EXCEPT !.slot = saved.slot],
                         flow |-> [flows[i] EXCEPT !.pc = "scan"]]
           IN  \E step \in {next} :
                   SetPageState(step.st) /\ flows' = WithFlow(i, step.flow, {})
        /\ UNCHANGED <<notFlowVars, progress, opened, alerted>>

\* scanArchiveDirectory settles in connectArchiveDirectory (part_002:341-351,
\* harvest.js:165-172)
ScanCompletes ==
    \E i \in DOMAIN flows, diskOk \in BOOLEAN :
        /\ flows[i].pc = "scan"
        /\ \E scanned \in {scanArchiveDirectory(FolderEntries(flows[i].directory))} :
           \E assigned \in {[PageState EXCEPT
                                !.archiveData = scanned,
                                !.archiveStatus =
                                    [t |-> "connected", media |-> scanned.mediaCount,
                                     meta |-> scanned.metaCount],
                                !.archiveNoticeHidden =
                                    IF page = "gallery" THEN JBool(TRUE) ELSE @]} :
           \E step \in {IF ~diskOk
                         THEN afterFailedConnect(
                                  [PageState EXCEPT !.archiveStatus =
                                      Status("info", "NotFoundError")], page, flows[i])
                         ELSE [st |-> render(assigned, page),
                               flow |-> [Done(flows[i], "ok") EXCEPT !.current = TRUE]]} :
               SetPageState(step.st) /\ flows' = WithFlow(i, step.flow, ConnectKinds)
        /\ UNCHANGED <<notFlowVars, progress, opened, alerted>>

\* openMissing's selection (harvest.js:213-223)
selectMissing(index, archive, limit) ==
    LET missingItems == SelectSeq(index, LAMBDA item : isMissing(archive.byId, item))
    IN  IF limit > 0 THEN slice0(missingItems, limit) ELSE missingItems

\* openMissing's loop from where call f stands to its next await or its end
\* (harvest.js:226-234): the pages opened so far with the new ones behind them,
\* each with the call `by` that opened it, and the progress shown
openMissingLoop(f, by, shown) ==
    LET total == Len(f.items)
        upto == IF f.delay > 0 /\ f.i < total THEN f.i + 1 ELSE total
    IN  [flow |-> [f EXCEPT !.i = upto,
                            !.pc = IF upto < total THEN "sleep" ELSE "done",
                            !.outcome = IF upto < total THEN "pending" ELSE "ok"],
         opened |-> shown \o [k \in 1..(upto - f.i) |->
                                 [id |-> f.items[f.i + k].id,
                                  url |-> buildAutoUrl(f.items[f.i + k].pageUrl,
                                                       f.appendAuto),
                                  by |-> by]],
         progress |-> updateProgress(upto, total)]

\* #delay as Number(value) || 0
Delays == {0, 500}

\* #open-limit as Number(value) || 0
OpenLimits == {0, 1, 2}

MaxOpenCalls == 2

\* The user clicks "open missing": openMissing up to its first await or its end
\* (harvest.js:204-234)
ClickOpenMissing ==
    /\ page = "harvest" /\ ~PickerOpen /\ Len(flows) < MaxOpenCalls
    /\ \E limit \in OpenLimits, delay \in Delays, appendAuto \in BOOLEAN :
           \E slice \in {selectMissing(normalizedIndex, archiveData, limit)} :
           \E r \in {openMissingLoop(
                        [Flow("open", "start") EXCEPT
                            !.items = slice, !.delay = delay, !.appendAuto = appendAuto,
                            !.during = {k \in DOMAIN flows : flows[k].kind = "open"
                                                             /\ flows[k].pc = "sleep"}],
                        Len(flows) + 1, opened)} :
               IF Len(normalizedIndex) = 0 \/ Len(slice) = 0
               THEN /\ alerted' = Status("alert",
                                         IF Len(normalizedIndex) = 0
                                         THEN "Load the gallery index first."
                                         ELSE "All items already have offline files.")
                    /\ flows' = Append(flows, Done(Flow("open", "start"), "alerted"))
                    /\ UNCHANGED <<opened, progress>>
               ELSE /\ flows' = Append(flows, r.flow)
                    /\ opened' = r.opened
                    /\ progress' = r.progress
                    /\ UNCHANGED alerted
    /\ UNCHANGED <<notFlowVars, slot, normalizedIndex, archiveData, indexStatus,
                   archiveStatus, listing, summary, archiveNoticeHidden, objectUrlCache,
                   pendingPreviews>>

\* The timer of an openMissing call fires (harvest.js:232): the loop goes on
OpenMissingWakes ==
    /\ \E i \in DOMAIN flows :
           /\ flows[i].kind = "open" /\ flows[i].pc = "sleep"
           /\ \E r \in {openMissingLoop(flows[i], i, opened)} :
                  /\ flows' = WithFlow(i, r.flow, {})
                  /\ opened' = r.opened
                  /\ progress' = r.progress
    /\ UNCHANGED <<notFlowVars, slot, normalizedIndex, archiveData, indexStatus,
                   archiveStatus, listing, summary, alerted, archiveNoticeHidden,
                   objectUrlCache, pendingPreviews>>

NextPageFlows ==
    \/ ClickConnectFolder
    \/ ChooseIndexFile
    \/ DefaultIndexArrives
    \/ StoredHandleRead
    \/ StoredHandleValidated
    \/ PickerSettles
    \/ PermissionSettles
    \/ HandleSaved
    \/ ScanCompletes
    \/ IndexFileParsed

SpecPageFlows == InitPageFlows /\ [][NextPageFlows]_vars

\* the connect flows that stand at an await of connectArchiveDirectory
ConnectsInProgress ==
    {k \in DOMAIN flows : /\ flows[k].kind \in ConnectKinds
                          /\ flows[k].pc \in {"permission", "save", "scan"}}

\* C21 as stated: at most one connect flow (the start-up restore or
\* auto-connect, or a folder pick) is inside connectArchiveDirectory at any
\* time, and archiveData comes from the connect flow that was started last: no
\* folder pick started after the flow whose scan archiveData holds has
\* connected.
C21_Claimed_OneConnectFlowAtATime ==
    /\ Cardinality(ConnectsInProgress) <= 1
    /\ \A k, j \in DOMAIN flows :
           (flows[k].kind \in ConnectKinds /\ flows[k].current
            /\ j > k /\ flows[j].kind = "pick")
               => flows[j].outcome # "ok"

\* C22 as stated: after an index file chosen by the user was loaded, and until
\* the user loads another, normalizedIndex holds the records of that file.
C22_Claimed_DefaultIndexNeverOverwritesUserLoad ==
    \A k \in DOMAIN flows :
        (flows[k].kind = "load" /\ flows[k].current)
            => normalizedIndex = flows[k].items

(***************************************************************************)
(* Failed loads and failed connects, under SpecArchive: each handler runs  *)
(* as one step, so a step shows everything one attempt changes.            *)
(***************************************************************************)
\* the step shows a new error in the index status line
IndexLoadFails == indexStatus' # indexStatus /\ indexStatus'.t = "error"
\* the step shows a new failure message in the archive status line
ConnectFails == archiveStatus' # archiveStatus /\ archiveStatus'.t = "info"

\* normalizedIndex is assigned only by a load that ends in "Loaded n items" and
\* archiveData only by a connect that ends in "Connected"
AssignedOnlyOnSuccess ==
    /\ normalizedIndex' # normalizedIndex => indexStatus'.t = "success"
    /\ archiveData' # archiveData => archiveStatus'.t = "connected"

FailedLoadChangesOnlyIndexStatus ==
    IndexLoadFails =>
        UNCHANGED <<slot, normalizedIndex, archiveData, archiveStatus, listing, summary,
                    progress, opened, alerted, archiveNoticeHidden, objectUrlCache,
                    pendingPreviews>>

\* C23 as stated, for connects: a failed connect changes only the status text
\* (and the notice that goes with it).
FailedConnectChangesOnlyStatus ==
    ConnectFails =>
        UNCHANGED <<slot, normalizedIndex, archiveData, indexStatus, listing, summary,
                    progress, opened, alerted, objectUrlCache, pendingPreviews>>

FailedConnectKeepsData ==
    ConnectFails =>
        UNCHANGED <<normalizedIndex, archiveData, indexStatus, listing, summary,
                    progress, opened, alerted, pendingPreviews>>

SidecarsOf(walk, id) ==
    {k \in 1..Len(walk) : /\ isMetaFile(walk[k].name)
                          /\ extractIdFromName(walk[k].name) # Null
                          /\ extractIdFromName(walk[k].name).s = id}

Parsed(walk, id) == {k \in SidecarsOf(walk, id) : readMetaFile(walk[k]).t # "error"}
FailedToParse(walk, id) == SidecarsOf(walk, id) \ Parsed(walk, id)

Last(S) == CHOOSE k \in S : \A j \in S : j <= k

\* C24 as stated: when an id has sidecars, its meta is the parse result of the
\* one visited last (here: the last one that has a parse result), and if any
\* of them failed to parse, its metaError is the message of the last that
\* failed.
C24_Claimed_MetaErrorIsLastFailure ==
    output # Unset =>
        LET walk == walkDirectory(input, <<>>)
        IN  \A id \in DOMAIN output.byId :
                /\ Parsed(walk, id) # {} =>
                       output.byId[id].meta = readMetaFile(walk[Last(Parsed(walk, id))])
                /\ FailedToParse(walk, id) # {} =>
                       /\ output.byId[id].metaError # Undefined
                       /\ output.byId[id].metaError =
                              readMetaFile(walk[Last(FailedToParse(walk, id))]).message

\* C24: when an id has sidecars, its meta is the parse result of the last one
\* that parsed, undefined when none did, whether or not a later one failed; its
\* metaError is the message of the sidecar visited last when that one failed
\* to parse, and undefined when the sidecar visited last parsed, whatever
\* failed before it.
C24_MetaIsLastParsedErrorIsOfLastVisited ==
    output # Unset =>
        LET walk == walkDirectory(input, <<>>)
        IN  \A id \in DOMAIN output.byId :
                SidecarsOf(walk, id) # {} =>
                    LET last == Last(SidecarsOf(walk, id))
                    IN  /\ output.byId[id].meta =
                               IF Parsed(walk, id) = {} THEN Undefined
                               ELSE readMetaFile(walk[Last(Parsed(walk, id))])
                        /\ last \in Parsed(walk, id) =>
                               output.byId[id].metaError = Undefined
                        /\ last \notin Parsed(walk, id) =>
                               /\ output.byId[id].metaError # Undefined
                               /\ output.byId[id].metaError =
                                      readMetaFile(walk[last]).message

\* C24 witness: an id has three sidecars, two that parse to different objects
\* and, after them, one that fails; the entry has the second object and the
\* message.
C24_Witness ==
    /\ output # Unset
    /\ LET walk == walkDirectory(input, <<>>)
       IN  \E id \in DOMAIN output.byId :
               /\ Cardinality(Parsed(walk, id)) = 2
               /\ \E k \in FailedToParse(walk, id) : \A j \in Parsed(walk, id) : j < k
               /\ \E i, j \in Parsed(walk, id) :
                      readMetaFile(walk[i]) # readMetaFile(walk[j])
               /\ output.byId[id].meta # Undefined
               /\ output.byId[id].metaError # Undefined

(***************************************************************************)
(* The counts of a scan, under SpecScan.                                   *)
(***************************************************************************)
RECURSIVE SumOfFiles(_, _)
SumOfFiles(byId, ids) ==
    IF ids = {} THEN 0
    ELSE LET id == CHOOSE x \in ids : TRUE
         IN  Len(byId[id].files) + SumOfFiles(byId, ids \ {id})

\* a file the scan passes over: no id in its name, or an id but neither a
\* media extension nor the sidecar suffix
IsIgnored(file) ==
    \/ extractIdFromName(file.name) = Null
    \/ ~isMetaFile(file.name) /\ ~isMediaFile(file.name)

\* C25: after every scan, the first of a folder or one that follows another:
\* mediaCount is the sum of the lengths of the files lists; metaCount plus the
\* number of errors is the number of visited .meta.json files with an id; the
\* scan of the folder without an ignored file is the same scan; every entry
\* has a file, a meta or a metaError; and the result is the scan of what the
\* folder holds now, started from nothing.
C25_CountsMatchAndScanIsFresh ==
    output # Unset =>
        LET walk == walkDirectory(input, <<>>)
        IN  /\ output.mediaCount = SumOfFiles(output.byId, DOMAIN output.byId)
            /\ output.metaCount + Len(output.errors)
                   = Cardinality({k \in 1..Len(walk) :
                                      /\ isMetaFile(walk[k].name)
                                      /\ extractIdFromName(walk[k].name) # Null})
            /\ \A k \in 1..Len(walk) :
                   IsIgnored(walk[k]) =>
                       ScanFiles(RemoveAt(walk, k), EmptyArchive) = output
            /\ \A id \in DOMAIN output.byId :
                   \/ output.byId[id].files # <<>>
                   \/ output.byId[id].meta # Undefined
                   \/ output.byId[id].metaError # Undefined
            /\ output = ScanFiles(walk, EmptyArchive)

\* C25 witness: a folder that holds, some of them in a subfolder, a media file,
\* a sidecar that parses, one that does not and a file that is passed over;
\* the scan has one of each count.
C25_Witness ==
    /\ output # Unset
    /\ output.mediaCount = 1 /\ output.metaCount = 1 /\ Len(output.errors) = 1
    /\ Len(walkDirectory(input, <<>>)) = 4
    /\ \E k \in 1..4 : IsIgnored(walkDirectory(input, <<>>)[k])

(***************************************************************************)
(* What one element of the page gives to waitForMedia: deriveMediaUrl and  *)
(* the placeholder test of the earlier revision (part_000:111-133),        *)
(* looksLikePlaceholder, looksLikeRealMedia and deriveMediaCandidate of    *)
(* the later one (part_000:369-431).  An element is its tag name, its      *)
(* currentSrc and src, the src of its first <source src> child (a         *)
(* sequence, empty when it has none), the candidates of its srcset and its *)
(* natural size.                                                           *)
(***************************************************************************)
MediaElement(tagName, currentSrc, src, source, srcset, naturalWidth, naturalHeight) ==
    [tagName |-> tagName, currentSrc |-> currentSrc, src |-> src, source |-> source,
     srcset |-> srcset, naturalWidth |-> naturalWidth, naturalHeight |-> naturalHeight]

\* `s` has `sub` in it, at position i
IncludesAt(s, sub, i) == i >= 1 /\ i + Len(sub) - 1 <= Len(s) /\ SubSeq(s, i, i + Len(sub) - 1) = sub

Includes(s, sub) == \E i \in 1..Len(s) : IncludesAt(s, sub, i)

\* /a|b|c/i.test(url) for literal alternatives written in lower case
TestAnyOf(url, alternatives) ==
    \E sub \in alternatives : Includes(stringToLowerCase(url), sub)

IsWordChar(c) == IsUpper(c) \/ c \in LowerSet \/ c \in Digits \/ c = "_"

\* /\.(ext|...)(?=[?#]|$)/i.test(url)
TestExtension(url, extensions) ==
    LET s == stringToLowerCase(url)
    IN  \E i \in 1..Len(s) : \E ext \in extensions :
            /\ s[i] = "."
            /\ IncludesAt(s, ext, i + 1)
            /\ (i + Len(ext) = Len(s) \/ s[i + Len(ext) + 1] \in {"?", "#"})

PlaceholderTokens == {<<"p","l","a","c","e","h","o","l","d","e","r">>}
EarlierRejected ==
    PlaceholderTokens \cup {<<"d","u","m","m","y">>,
                            <<"d","a","t","a",":","i","m","a","g","e","/","s","v","g">>}
DataScheme == <<"d","a","t","a",":">>
SoraImages == <<"s","o","r","a","/","i","m","a","g","e","s","/">>
SmallArtTokens == {<<"a","v","a","t","a","r">>, <<"t","h","u","m","b">>, <<"i","c","o","n">>}
GenerationTokens ==
    {<<"g","e","n","e","r","a","t","i","o","n","s">>, <<"v","i","d","e","o","s">>,
     <<"o","u","t","p","u","t">>}
MediaHosts ==
    {<<"v","i","d","e","o","s",".","o","p","e","n","a","i",".","c","o","m">>,
     <<"v","g","a","s","s","e","t">>, <<"v","g","-","a","s","s","e","t">>,
     <<"s","t","o","r","a","g","e",".","g","o","o","g","l","e","a","p","i","s",".","c","o","m">>}
SoraProd == <<"s","o","r","a","-","p","r","o","d">>
DotS3 == <<".","s","3">>
VideoExtensions ==
    {<<"m","p","4">>, <<"w","e","b","m">>, <<"m","o","v">>, <<"m","4","v">>, <<"m","p","g">>,
     <<"m","p","e","g">>, <<"g","i","f">>}
ImageExtensions ==
    {<<"p","n","g">>, <<"j","p","g">>, <<"j","p","e","g">>, <<"w","e","b","p">>,
     <<"a","v","i","f">>, <<"b","m","p">>, <<"t","i","f","f">>}

\* part_000:369-377; url is a string, the empty one when the property is unset
looksLikePlaceholder(url) ==
    IF url = <<>> THEN FALSE
    ELSE IF startsWith(url, DataScheme) THEN TRUE
    ELSE IF TestAnyOf(url, PlaceholderTokens) THEN TRUE
    ELSE IF \E i \in 1..Len(url) :
                /\ IncludesAt(stringToLowerCase(url), SoraImages, i)
                /\ (i = 1 \/ ~IsWordChar(url[i - 1]))
         THEN TRUE
    ELSE TestAnyOf(url, SmallArtTokens) /\ ~TestAnyOf(url, GenerationTokens)

\* part_000:379-389
looksLikeRealMedia(url) ==
    IF url = <<>> \/ looksLikePlaceholder(url) THEN FALSE
    ELSE \/ TestAnyOf(url, MediaHosts)
         \/ \E i, j \in 1..Len(url) :
                /\ IncludesAt(stringToLowerCase(url), SoraProd, i)
                /\ IncludesAt(stringToLowerCase(url), DotS3, j)
                /\ j >= i + Len(SoraProd)
         \/ TestExtension(url, VideoExtensions)
         \/ TestExtension(url, ImageExtensions)

\* the first string of `sources` that passes Test, as a one-element or empty
\* sequence
FirstSource(sources, Test(_)) ==
    LET passing == SelectSeq(sources, Test)
    IN  IF passing = <<>> THEN <<>> ELSE <<passing[1]>>

MIN_NATURAL_SIZE == 40

\* deriveMediaCandidate of the later revision (part_000:403-431).  A natural
\* size of 0 is falsy, so the two size tests let it through.
deriveMediaCandidate(element) ==
    IF element.tagName = "VIDEO"
    THEN LET sources == <<element.currentSrc, element.src>>
                        \o element.source
             url == FirstSource(sources, looksLikeRealMedia)
         IN  IF url # <<>> THEN MediaCandidate(url[1], "video") ELSE Null
    ELSE IF element.tagName = "IMG"
    THEN LET sources == <<element.currentSrc, element.src>> \o element.srcset
             tooSmall ==
                 \/ (element.naturalWidth # 0 /\ element.naturalWidth < MIN_NATURAL_SIZE)
                 \/ (element.naturalHeight # 0 /\ element.naturalHeight < MIN_NATURAL_SIZE)
             url == FirstSource(sources, LAMBDA u : looksLikeRealMedia(u) /\ ~tooSmall)
         IN  IF url # <<>> THEN MediaCandidate(url[1], "image") ELSE Null
    ELSE Null

\* deriveMediaUrl of the earlier revision (part_000:111-124)
deriveMediaUrl(element) ==
    IF element.tagName = "VIDEO" /\ element.currentSrc # <<>>
    THEN MediaCandidate(element.currentSrc, "video")
    ELSE IF element.tagName = "VIDEO" /\ element.source # <<>>
    THEN MediaCandidate(element.source[1], "video")
    ELSE IF element.tagName = "VIDEO" /\ element.src # <<>>
    THEN MediaCandidate(element.src, "video")
    ELSE IF element.tagName = "IMG" /\ element.currentSrc # <<>>
    THEN MediaCandidate(element.currentSrc, "image")
    ELSE IF element.tagName = "IMG" /\ element.src # <<>>
    THEN MediaCandidate(element.src, "image")
    ELSE Null

\* What the scan of revision `rev` takes from one element: the candidate it
\* would return for it, null when it goes on to the next element
\* (part_000:130-133 in the earlier revision, 437-450 in the later).
candidateOf(rev, element) ==
    IF rev = "earlier"
    THEN LET result == deriveMediaUrl(element)
         IN  IF result = Null THEN Null
             ELSE IF result.url = <<>> THEN Null
             ELSE IF TestAnyOf(result.url, EarlierRejected) THEN Null
             ELSE result
    ELSE deriveMediaCandidate(element)

\* the document as waitForMediaScan takes it
Scanned(rev, elements) ==
    [i \in DOMAIN elements |-> Element(elements[i].tagName, candidateOf(rev, elements[i]))]

Url_videoHost ==
    <<"h","t","t","p","s",":","/","/","v","i","d","e","o","s",".","o","p","e","n","a",
    "i",".","c","o","m","/","v","/","a">>
Url_png ==
    <<"h","t","t","p","s",":","/","/","c",".","i","o","/","g","/","a",".","p","n","g",
    "?","w","=","1">>
Url_dataPng ==
    <<"d","a","t","a",":","i","m","a","g","e","/","p","n","g",";","b","a","s","e","6",
    "4",",","A","A",".","p","n","g">>
Url_dataSvg ==
    <<"d","a","t","a",":","i","m","a","g","e","/","s","v","g","+","x","m","l",",","x">>
Url_placeholderMp4 ==
    <<"h","t","t","p","s",":","/","/","v","i","d","e","o","s",".","o","p","e","n","a",
    "i",".","c","o","m","/","P","l","a","c","e","h","o","l","d","e","r",".","m","p",
    "4">>
Url_dummy ==
    <<"h","t","t","p","s",":","/","/","c",".","i","o","/","d","u","m","m","y",".","p",
    "n","g">>
Url_avatar ==
    <<"h","t","t","p","s",":","/","/","c",".","i","o","/","u","/","a","v","a","t","a",
    "r",".","j","p","g">>
Url_iconOnVgAssets ==
    <<"h","t","t","p","s",":","/","/","v","g","-","a","s","s","e","t","s",".","i","o",
    "/","i","c","o","n",".","p","n","g">>
Url_thumbOfGeneration ==
    <<"h","t","t","p","s",":","/","/","c",".","i","o","/","g","e","n","e","r","a","t",
    "i","o","n","s","/","t","h","u","m","b",".","w","e","b","p">>
Url_soraImages ==
    <<"h","t","t","p","s",":","/","/","c",".","i","o","/","s","o","r","a","/","i","m",
    "a","g","e","s","/","b","g",".","p","n","g">>
Url_page == <<"h","t","t","p","s",":","/","/","c",".","i","o","/","w","a","t","c","h">>

MaxMediaElements == 1

MediaUrls ==
    {Url_videoHost, Url_png, Url_dataPng, Url_dataSvg, Url_placeholderMp4, Url_dummy,
     Url_avatar, Url_iconOnVgAssets, Url_thumbOfGeneration, Url_soraImages, Url_page}

NaturalSizes == {0, 39, 40}

MediaElementPool ==
    {MediaElement("VIDEO", u, <<>>, <<>>, <<>>, 0, 0) : u \in MediaUrls \cup {<<>>}}
    \cup {MediaElement("VIDEO", <<>>, u, s, <<>>, 0, 0) :
             u \in {<<>>, Url_avatar, Url_page}, s \in {<<>>, <<Url_mp4>>}}
    \cup {MediaElement("IMG", u, <<>>, <<>>, <<>>, MIN_NATURAL_SIZE, MIN_NATURAL_SIZE) :
             u \in MediaUrls \cup {<<>>}}
    \cup {MediaElement("IMG", u, <<>>, <<>>, ss, w, h) :
             u \in {<<>>, Url_png}, ss \in {<<>>, <<Url_WEBP>>},
             w \in NaturalSizes, h \in NaturalSizes}
    \cup {MediaElement("DIV", <<>>, Url_png, <<>>, <<>>, 0, 0)}

MediaDocuments == SeqsUpTo(MediaElementPool, MaxMediaElements) \ {<<>>}

InitCandidate ==
    /\ input \in [revision : {"earlier", "later"}, elements : MediaDocuments]
    /\ output = Unset
    /\ IdleId /\ IdleMedia /\ IdleRuns /\ IdleFlows /\ IdleIndex /\ IdleStore
    /\ IdleRest

\* one pass of waitForMedia's loop over the page
ScanForCandidate ==
    /\ output = Unset
    /\ output' = waitForMediaScan(input.revision,
                                  Scanned(input.revision, input.elements), Null).found
    /\ UNCHANGED <<input, notPureVars>>

SpecCandidate == InitCandidate /\ [][ScanForCandidate]_vars

\* the URL is an embedded data: payload
IsDataUrl(url) == Len(url) >= 5 /\ SubSeq(url, 1, 5) = <<"d","a","t","a",":">>

\* the URL has the token somewhere in it, in any case
HasToken(url, token) ==
    \E i \in 1..Len(url) :
        /\ i + Len(token) - 1 <= Len(url)
        /\ \A k \in 1..Len(token) : toLowerCase(url[i + k - 1]) = token[k]

\* what the claim calls a placeholder URL
ClaimedPlaceholder(url) ==
    \/ IsDataUrl(url)
    \/ HasToken(url, <<"p","l","a","c","e","h","o","l","d","e","r">>)
    \/ /\ \/ HasToken(url, <<"a","v","a","t","a","r">>)
          \/ HasToken(url, <<"t","h","u","m","b">>)
          \/ HasToken(url, <<"i","c","o","n">>)
       /\ ~HasToken(url, <<"g","e","n","e","r","a","t","i","o","n","s">>)
       /\ ~HasToken(url, <<"v","i","d","e","o","s">>)
       /\ ~HasToken(url, <<"o","u","t","p","u","t">>)

\* C27 as stated: in every revision, waitForMedia never returns a candidate
\* whose URL is an embedded data: payload, contains 'placeholder', or contains
\* an avatar/thumb/icon token without a generations/videos/output(s) token.
C27_Claimed_NeverReturnsPlaceholder ==
    (output # Unset /\ output # Null) => ~ClaimedPlaceholder(output.url)

\* C27, the later revision alone: what it returns is never such a URL.
C27_LaterNeverReturnsPlaceholder ==
    (output # Unset /\ output # Null /\ input.revision = "later")
        => ~ClaimedPlaceholder(output.url)

\* C28 as stated: the later revision never returns an image taken from an IMG
\* element whose natural width or natural height is below 40 pixels, a
\* dimension of 0 included.
C28_Claimed_NeverReturnsSmallImage ==
    (output # Unset /\ output # Null /\ input.revision = "later") =>
        \A i \in DOMAIN input.elements :
            (candidateOf("later", input.elements[i]) = output /\ output.kind = "image")
                => /\ input.elements[i].naturalWidth >= 40
                   /\ input.elements[i].naturalHeight >= 40

\* C28 without the case of 0: an image of the later revision never comes from
\* an IMG element with a natural width or height from 1 to 39.
C28_LaterNeverReturnsImageOfSize1To39 ==
    (output # Unset /\ output # Null /\ input.revision = "later") =>
        \A i \in DOMAIN input.elements :
            (candidateOf("later", input.elements[i]) = output /\ output.kind = "image")
                => /\ input.elements[i].naturalWidth \notin 1..39
                   /\ input.elements[i].naturalHeight \notin 1..39

\* the flow is past ensureReadPermission in connectArchiveDirectory: its
\* scanArchiveDirectory call has started, or only saveDirectoryHandle stands
\* before it
ScanStarted(f) ==
    /\ f.kind \in ConnectKinds
    /\ f.pc \in {"save", "scan"} \/ (f.pc = "done" /\ f.outcome = "ok")

\* the calls follow the query-then-request protocol and `granted` is their
\* outcome
FollowsProtocol(calls, granted) ==
    /\ Len(calls) \in 1..2
    /\ calls[1].method = "queryPermission"
    /\ Len(calls) = 2 <=> calls[1].answer = "prompt"
    /\ Len(calls) = 2 => calls[2].method = "requestPermission"
    /\ granted <=> calls[Len(calls)].answer = "granted"
    /\ (\E k \in DOMAIN calls : calls[k].answer = "throw") => ~granted

\* C29: every ensureReadPermission call of the page asks queryPermission
\* first, asks requestPermission at most once and only after the answer
\* 'prompt', returns true exactly when the last answer is 'granted', returns
\* false when a call throws; and connectArchiveDirectory starts no scan of a
\* handle for which it did not return true.
C29_QueryThenRequestAndScanOnlyWhenGranted ==
    \A k \in DOMAIN flows :
        /\ flows[k].calls # <<>> => FollowsProtocol(flows[k].calls, flows[k].granted)
        /\ flows[k].calls = <<>> => ~flows[k].granted
        /\ ScanStarted(flows[k]) => (flows[k].granted /\ flows[k].calls # <<>>)

\* C29 witness: one call was refused because requestPermission threw and
\* nothing was scanned for it; another was granted at the prompt and its scan
\* has run.
C29_Witness ==
    \E j, k \in DOMAIN flows :
        /\ Len(flows[j].calls) = 2 /\ flows[j].calls[2].answer = "throw"
        /\ flows[j].pc = "done" /\ flows[j].outcome = "failed"
        /\ Len(flows[k].calls) = 2 /\ flows[k].calls[2].answer = "granted"
        /\ flows[k].pc = "done" /\ flows[k].outcome = "ok"

(***************************************************************************)
(* Specification SpecOpenMissing: the harvest page with its index loads    *)
(* and folder picks as whole handlers, and openMissing (harvest.js:204-235)*)
(* advancing from one await to the next.  The button is never disabled, so *)
(* it can be clicked while an earlier call is waiting between two opens.   *)
(***************************************************************************)
HarvestArchives == { <<>>, <<File_a_media, File_a_meta>> }

HarvestIndexFiles == { f \in IndexFiles : f.name = <<"a">> }

InitOpenMissing ==
    /\ disk \in HarvestArchives
    /\ InitPage /\ page = "harvest"
    /\ IdleCalls /\ IdleIndex /\ IdleStore /\ IdleScript

LoadHarvestIndex == HandleIndexFileSelectionFrom(HarvestIndexFiles)

NextOpenMissing ==
    LoadHarvestIndex \/ PickArchiveFolder \/ ClickOpenMissing \/ OpenMissingWakes

SpecOpenMissing == InitOpenMissing /\ [][NextOpenMissing]_vars

\* the pages call k of openMissing has opened, in the order it opened them
OpenedBy(k) == SelectSeq(opened, LAMBDA o : o.by = k)

OpenCalls == {k \in DOMAIN flows : flows[k].kind = "open" /\ flows[k].outcome # "alerted"}

\* C30, one invocation taken alone: call k has opened the first i records of
\* its selection, in index order and each once; it is waiting exactly when a
\* delay was given and records are left, and it has ended exactly when it has
\* opened them all.
C30_EachCallOpensItsSelectionInOrder ==
    \A k \in OpenCalls :
        LET f == flows[k]
            mine == OpenedBy(k)
        IN  /\ Len(mine) = f.i /\ f.i \in 1..Len(f.items)
            /\ \A j \in 1..f.i :
                   /\ mine[j].id = f.items[j].id
                   /\ mine[j].url = buildAutoUrl(f.items[j].pageUrl, f.appendAuto)
            /\ f.pc = "sleep" <=> (f.delay > 0 /\ f.i < Len(f.items))
            /\ f.pc = "done" <=> f.i = Len(f.items)

\* C30 as stated, its last part: no page is opened twice for the same record,
\* even when the button is clicked again while an earlier invocation is still
\* waiting between two opens.
C30_Claimed_NoRecordOpenedTwice ==
    \A p, q \in DOMAIN opened :
        (p < q /\ opened[p].id = opened[q].id /\ opened[p].by # opened[q].by)
            => opened[p].by \notin flows[opened[q].by].during

=============================================================================
